---- MODULE Spec2Model ----
(***************************************************************************)
(* hyfetch: colour profiles (presets.rs), the placeholder scanner and the  *)
(* ascii normalizer (neofetch_util.rs) and the colour aligner (ascii.rs).  *)
(*                                                                         *)
(* Text is a sequence of one-character strings; an ANSI escape sequence    *)
(* written by the program is one element of such a sequence.               *)
(***************************************************************************)
EXTENDS Integers, Sequences, FiniteSets, TLC

VARIABLES
    colors,     \* ColorProfile.colors of the receiver of a profile operation
    call,       \* the last profile operation and its arguments
    ret,        \* what that operation returned
    text,       \* a text handed to the placeholder scanner
    strip1,     \* the text after one replace_all pass with empty replacements
    strip2,     \* the result of stripping strip1 again
    art,        \* RawAsciiArt: asc, fg, bg
    profile,    \* the colour profile handed to to_recolored
    norm,       \* Result<NormalizedAsciiArt> of to_normalized
    filled,     \* Result<NormalizedAsciiArt> of fill_starting on norm
    req,        \* arguments of the last to_recolored call
    rec,        \* Result<RecoloredAsciiArt> of that call
    ucall,      \* the last call of a function of color_util.rs or utils.rs
    uret,       \* what that call returned
    key_pressed,        \* the AtomicBool shared by the animation and its reader thread
    reader,             \* position of the stdin-reader thread
    stdin,              \* what its last io::stdin().lines().next() returned
    animation,          \* position of the animation loop
    frame,              \* Wrapping<usize> frame counter
    frames_since_read,  \* frames started since the reader got a line
    frames_since_store, \* frames started since the flag was set
    wizard,         \* position of the preset selection of create_config
    presets,        \* number of presets offered (flags.len())
    flags_per_row,  \* u8
    rows_per_page,  \* u8
    num_pages,      \* u8
    pages,          \* the pages: each a sequence of rows, each row a number of flags
    page,           \* u8 index of the page shown
    selection       \* the last line literal_input read and the option it selected

vars == <<colors, call, ret, text, strip1, strip2, art, profile, norm, filled, req, rec,
          ucall, uret, key_pressed, reader, stdin, animation, frame, frames_since_read,
          frames_since_store, wizard, presets, flags_per_row, rows_per_page, num_pages,
          pages, page, selection>>

profileVars == <<colors, call, ret>>
stripVars == <<text, strip1, strip2>>
artVars == <<art, profile, norm, filled, req, rec>>
utilVars == <<ucall, uret>>
animVars == <<key_pressed, reader, stdin, animation, frame, frames_since_read,
              frames_since_store>>
wizVars == <<wizard, presets, flags_per_row, rows_per_page, num_pages, pages, page, selection>>

----------------------------------------------------------------------------
(* Bounds *)

MaxColors == 4      \* longest receiver profile
MaxLength == 9      \* largest target length handed to with_length
MaxWeight == 2      \* largest single weight handed to with_weights
MaxStripPieces == 3 \* most pieces concatenated into a text for the scanner
MaxArtPieces == 3   \* most pieces (tokens, characters, newlines) of a raw art
MaxLightnessStep == 50  \* lightness inputs range this many hundredths beyond [0, 1]
MaxFillPieces == 4  \* most pieces of a raw art handed to fill_starting on its own
MaxExitCode == 3    \* largest exit code of a backend child process
MaxSignal == 3      \* largest signal number ending a backend child process
MaxDiff == 2        \* largest colour difference in a table handed to the ramp loop
MaxColorPieces == 3 \* most pieces of a message handed to color
FrameWrap == 8      \* the frame counter wraps at this value (usize::MAX + 1 in the program)
MaxFrames == 3      \* the counts of started frames saturate here
MaxPresets == 5     \* most presets offered by the wizard (Preset::COUNT in the program)
MaxTermUnits == 4   \* the terminal is at most this many times 11 columns wide and 6 rows high

----------------------------------------------------------------------------
(* Colours: Srgb<u8> triples *)

Red == <<255, 0, 0>>
Green == <<0, 255, 0>>
Blue == <<0, 0, 255>>
Palette == {Red, Green, Blue}

U8_MAX == 255

Ok(v) == [status |-> "ok", val |-> v]
Err(msg) == [status |-> "err", val |-> msg]
Panic(msg) == [status |-> "panic", val |-> msg]

RECURSIVE SeqsUpTo(_, _)
SeqsUpTo(S, n) ==
    IF n = 0 THEN {<<>>}
    ELSE LET shorter == SeqsUpTo(S, n - 1)
         IN shorter \cup {Append(s, x) : s \in {t \in shorter : Len(t) = n - 1}, x \in S}

Repeat(x, n) == [k \in 1..n |-> x]

RECURSIVE SumSeq(_)
SumSeq(s) == IF s = <<>> THEN 0 ELSE Head(s) + SumSeq(Tail(s))

----------------------------------------------------------------------------
(* presets.rs: ColorProfile *)

\* with_weights: weights[i] consecutive copies of colors[i]
RECURSIVE extend_weighted(_, _)
extend_weighted(cs, weights) ==
    IF weights = <<>> THEN <<>>
    ELSE Repeat(Head(cs), Head(weights)) \o extend_weighted(Tail(cs), Tail(weights))

\* slip: zip the two vectors instead of rejecting a length mismatch
with_weights_zip(cs, weights) ==
    LET n == IF Len(weights) < Len(cs) THEN Len(weights) ELSE Len(cs)
    IN Ok(extend_weighted(SubSeq(cs, 1, n), SubSeq(weights, 1, n)))

with_weights(cs, weights) ==
    IF Len(weights) # Len(cs)
    THEN Err("weights should have the same number of elements as colors")
    ELSE Ok(extend_weighted(cs, weights))

\* slip: the odd leftover is dropped instead of going to the centre
with_length_weights_no_center(orig_len, length) ==
    LET repeats == length \div orig_len
        borders == (length % orig_len) \div 2
    IN [i \in 1..orig_len |->
            repeats
            + (IF i - 1 < borders THEN 1 ELSE 0)
            + (IF orig_len - i < borders THEN 1 ELSE 0)]

\* slip: the centre of an even-length profile is taken left of the middle
with_length_weights_left_center(orig_len, length) ==
    LET center_i == (orig_len - 1) \div 2
        repeats == length \div orig_len
        extras0 == length % orig_len
        odd == extras0 % 2 = 1
        borders == extras0 \div 2
    IN [i \in 1..orig_len |->
            repeats
            + (IF odd /\ i - 1 = center_i THEN 1 ELSE 0)
            + (IF i - 1 < borders THEN 1 ELSE 0)
            + (IF orig_len - i < borders THEN 1 ELSE 0)]

\* slip: only the left border gets the extra copies
with_length_weights_left_border(orig_len, length) ==
    LET center_i == orig_len \div 2
        repeats == length \div orig_len
        extras0 == length % orig_len
        odd == extras0 % 2 = 1
        borders == extras0 \div 2
    IN [i \in 1..orig_len |->
            repeats
            + (IF odd /\ i - 1 = center_i THEN 1 ELSE 0)
            + (IF i - 1 < borders THEN 2 ELSE 0)]

\* slip: the borders take every extra copy instead of half of them on each side
with_length_weights_wide_border(orig_len, length) ==
    LET center_i == orig_len \div 2
        repeats == length \div orig_len
        extras0 == length % orig_len
        odd == extras0 % 2 = 1
    IN [i \in 1..orig_len |->
            repeats
            + (IF odd /\ i - 1 = center_i THEN 1 ELSE 0)
            + (IF i - 1 < extras0 THEN 1 ELSE 0)
            + (IF orig_len - i < extras0 THEN 1 ELSE 0)]

\* slip: the odd copy goes to the first colour, not to the centre
with_length_weights_first(orig_len, length) ==
    LET repeats == length \div orig_len
        extras0 == length % orig_len
        odd == extras0 % 2 = 1
        borders == extras0 \div 2
    IN [i \in 1..orig_len |->
            repeats
            + (IF odd /\ i - 1 = borders THEN 1 ELSE 0)
            + (IF i - 1 < borders THEN 1 ELSE 0)
            + (IF orig_len - i < borders THEN 1 ELSE 0)]

\* the weights with_length computes for a profile of orig_len colours
with_length_weights(orig_len, length) ==
    LET center_i == orig_len \div 2
        repeats == length \div orig_len
        extras0 == length % orig_len
        odd == extras0 % 2 = 1
        extras == IF odd THEN extras0 - 1 ELSE extras0
        borders == extras \div 2
    IN [i \in 1..orig_len |->
            repeats
            + (IF odd /\ i - 1 = center_i THEN 1 ELSE 0)
            + (IF i - 1 < borders THEN 1 ELSE 0)
            + (IF orig_len - i < borders THEN 1 ELSE 0)]

with_length(cs, length) ==
    IF Len(cs) > U8_MAX THEN Panic("orig_len should fit in u8")
    ELSE IF Len(cs) = 0 THEN Panic("attempt to divide by zero")
    ELSE LET weights == with_length_weights(Len(cs), length)
         IN IF \E i \in 1..Len(cs) : weights[i] > U8_MAX
            THEN Panic("attempt to add with overflow")
            ELSE with_weights(cs, weights)

\* unique_colors: IndexSet keeps the first occurrence of each colour
RECURSIVE index_set_collect(_, _)
index_set_collect(acc, cs) ==
    IF cs = <<>> THEN acc
    ELSE index_set_collect(
            IF \E k \in 1..Len(acc) : acc[k] = Head(cs) THEN acc ELSE Append(acc, Head(cs)),
            Tail(cs))

\* slip: a colour seen again moves to the back (order of last occurrence)
RECURSIVE collect_last(_, _)
collect_last(acc, cs) ==
    IF cs = <<>> THEN acc
    ELSE collect_last(
            Append(SelectSeq(acc, LAMBDA c : c # Head(cs)), Head(cs)),
            Tail(cs))

unique_colors_last(cs) == collect_last(<<>>, cs)

unique_colors(cs) == index_set_collect(<<>>, cs)

----------------------------------------------------------------------------
(* Characters.  "ACUTE" stands for U+0301 COMBINING ACUTE ACCENT: 2 bytes in  *)
(* UTF-8 and Grapheme_Extend, so it joins the cluster of the character before *)
(* it.  Every other character used here is ASCII.                              *)

char_len_utf8(ch) == IF ch = "ACUTE" THEN 2 ELSE 1

is_extend(ch) == ch = "ACUTE"

RECURSIVE Flatten(_)
Flatten(ss) == IF ss = <<>> THEN <<>> ELSE Head(ss) \o Flatten(Tail(ss))

\* str::len of a text, in bytes
RECURSIVE str_len(_)
str_len(txt) == IF txt = <<>> THEN 0 ELSE char_len_utf8(Head(txt)) + str_len(Tail(txt))

\* UnicodeSegmentation::graphemes(true): the extended grapheme clusters of a text
RECURSIVE graphemes(_)
graphemes(txt) ==
    IF txt = <<>> THEN <<>>
    ELSE LET stops == {k \in 2..(Len(txt) + 1) : k = Len(txt) + 1 \/ ~is_extend(txt[k])}
             n == CHOOSE k \in stops : \A j \in stops : k <= j
         IN <<SubSeq(txt, 1, n - 1)>> \o graphemes(SubSeq(txt, n, Len(txt)))

\* str::split('\n')
RECURSIVE split_nl(_)
split_nl(txt) ==
    IF \A k \in 1..Len(txt) : txt[k] # "\n" THEN <<txt>>
    ELSE LET n == CHOOSE k \in 1..Len(txt) : txt[k] = "\n" /\ \A j \in 1..(k - 1) : txt[j] # "\n"
         IN <<SubSeq(txt, 1, n - 1)>> \o split_nl(SubSeq(txt, n + 1, Len(txt)))

\* str::lines(): as split('\n'), without the empty piece after a final newline
lines_of(txt) ==
    LET parts == split_nl(txt)
    IN IF parts[Len(parts)] = <<>> THEN SubSeq(parts, 1, Len(parts) - 1) ELSE parts

\* Itertools::join("\n")
RECURSIVE join_nl(_)
join_nl(ls) ==
    IF ls = <<>> THEN <<>>
    ELSE IF Len(ls) = 1 THEN ls[1]
    ELSE ls[1] \o <<"\n">> \o join_nl(Tail(ls))

----------------------------------------------------------------------------
(* neofetch_util.rs: the placeholder scanner (AhoCorasick over six patterns) *)

Token(d) == <<"$", "{", "c", d, "}">>

NEOFETCH_COLOR_PATTERNS == <<Token("1"), Token("2"), Token("3"), Token("4"), Token("5"), Token("6")>>

PatternLen == Len(NEOFETCH_COLOR_PATTERNS[1])

\* the pattern (1..6) that occurs at position i of txt, 0 if none does
pattern_at(txt, i) ==
    IF i + PatternLen - 1 > Len(txt) THEN 0
    ELSE LET hit == {p \in 1..Len(NEOFETCH_COLOR_PATTERNS) :
                        SubSeq(txt, i, i + PatternLen - 1) = NEOFETCH_COLOR_PATTERNS[p]}
         IN IF hit = {} THEN 0 ELSE CHOOSE p \in hit : TRUE

\* find_iter: the non-overlapping matches from left to right; start and end are
\* character positions (end exclusive), counted from 1
RECURSIVE find_from(_, _)
find_from(txt, i) ==
    IF i > Len(txt) THEN <<>>
    ELSE IF pattern_at(txt, i) # 0
         THEN <<[pattern |-> pattern_at(txt, i), start |-> i, end |-> i + PatternLen]>>
              \o find_from(txt, i + PatternLen)
         ELSE find_from(txt, i + 1)

\* slip: the scan stops after the first match
find_first_only(txt) ==
    LET all == find_from(txt, 1) IN IF all = <<>> THEN <<>> ELSE <<all[1]>>

find_iter(txt) == find_from(txt, 1)

\* replace_all: every match is replaced by the replacement of its pattern
RECURSIVE replace_matches(_, _, _, _)
replace_matches(txt, ms, from, replacements) ==
    IF ms = <<>> THEN SubSeq(txt, from, Len(txt))
    ELSE SubSeq(txt, from, Head(ms).start - 1)
         \o replacements[Head(ms).pattern]
         \o replace_matches(txt, Tail(ms), Head(ms).end, replacements)

replace_all(txt, replacements) == replace_matches(txt, find_iter(txt), 1, replacements)

EmptyReplacements == [p \in 1..Len(NEOFETCH_COLOR_PATTERNS) |-> <<>>]

\* replace_all with REPLACEMENTS = [""; N]
strip_all(txt) == replace_all(txt, EmptyReplacements)

----------------------------------------------------------------------------
(* neofetch_util.rs: ascii_size, normalize_ascii *)

Max(S) == CHOOSE x \in S : \A y \in S : y <= x

\* slip: the width is taken in bytes, not in grapheme clusters
line_width_bytes(line) == str_len(line)

line_width(line) == Len(graphemes(line))

\* (width, height) of an art, ignoring colour codes
ascii_size(asc) ==
    LET stripped == strip_all(asc)
        ls == split_nl(stripped)
    IN [w |-> Max({line_width(ls[k]) : k \in 1..Len(ls)}), h |-> Len(ls)]

\* slip: every line gets the full width as padding
pad_line_full(line, w) == line \o Repeat(" ", w)

pad_line(line, w) == line \o Repeat(" ", w - ascii_size(line).w)

normalize_ascii(asc) ==
    LET w == ascii_size(asc).w
        ls == split_nl(asc)
    IN join_nl([k \in 1..Len(ls) |-> pad_line(ls[k], w)])

----------------------------------------------------------------------------
(* color_util.rs: escape sequences *)

\* MINECRAFT_COLORS: the character after "&" and the escape sequence it stands for
MINECRAFT_COLORS ==
    { <<"0", "ESC[38;5;0m">>, <<"1", "ESC[38;5;4m">>, <<"2", "ESC[38;5;2m">>,
      <<"3", "ESC[38;5;6m">>, <<"4", "ESC[38;5;1m">>, <<"5", "ESC[38;5;5m">>,
      <<"6", "ESC[38;5;3m">>, <<"7", "ESC[38;5;7m">>, <<"8", "ESC[38;5;8m">>,
      <<"9", "ESC[38;5;12m">>, <<"a", "ESC[38;5;10m">>, <<"b", "ESC[38;5;14m">>,
      <<"c", "ESC[38;5;9m">>, <<"d", "ESC[38;5;13m">>, <<"e", "ESC[38;5;11m">>,
      <<"f", "ESC[38;5;15m">>, <<"l", "ESC[1m">>, <<"o", "ESC[3m">>, <<"n", "ESC[4m">>,
      <<"k", "ESC[8m">>, <<"m", "ESC[9m">>, <<"r", "ESC[0m">>,
      <<"-", "\n">>, <<"~", "ESC[39m">>, <<"*", "ESC[49m">>,
      <<"L", "ESC[22m">>, <<"O", "ESC[23m">>, <<"N", "ESC[24m">>,
      <<"K", "ESC[28m">>, <<"M", "ESC[29m">> }

minecraft_code_at(msg, i) ==
    /\ i + 1 <= Len(msg)
    /\ msg[i] = "&"
    /\ \E e \in MINECRAFT_COLORS : e[1] = msg[i + 1]

\* the first replace_all of color(): every short code becomes its escape sequence
RECURSIVE color_codes_from(_, _)
color_codes_from(msg, i) ==
    IF i > Len(msg) THEN <<>>
    ELSE IF minecraft_code_at(msg, i)
         THEN <<(CHOOSE e \in MINECRAFT_COLORS : e[1] = msg[i + 1])[2]>>
              \o color_codes_from(msg, i + 2)
         ELSE <<msg[i]>> \o color_codes_from(msg, i + 1)

\* color(msg, mode) for a message without an "&gf(" / "&gb(" escape: the second
\* pass finds nothing to replace and copies the message
color(msg, mode) == color_codes_from(msg, 1)

\* rgb.to_ansi256(): index of the colour in the 6x6x6 cube of the 256 palette
cube_level(v) == IF v < 48 THEN 0 ELSE IF v < 115 THEN 1 ELSE (v - 35) \div 40

to_ansi256(c) == 16 + 36 * cube_level(c[1]) + 6 * cube_level(c[2]) + cube_level(c[3])

\* ToAnsiString for Srgb<u8>, modes Rgb and Ansi256
to_ansi_string(c, mode, foreground_background) ==
    LET n == IF foreground_background = "Foreground" THEN 38 ELSE 48
    IN IF mode = "Rgb"
       THEN "ESC[" \o ToString(n) \o ";2;" \o ToString(c[1]) \o ";" \o ToString(c[2])
                \o ";" \o ToString(c[3]) \o "m"
       ELSE "ESC[" \o ToString(n) \o ";5;" \o ToString(to_ansi256(c)) \o "m"

\* RGB_COLOR_PATTERNS
RGB_COLOR_PATTERNS == << <<"&", "g", "f", "(">>, <<"&", "g", "b", "(">> >>

\* pattern (1 or 2) of RGB_COLOR_PATTERNS that starts at i, 0 when none does
rgb_pattern_at(msg, i) ==
    IF i + 3 > Len(msg) THEN 0
    ELSE IF SubSeq(msg, i, i + 3) = RGB_COLOR_PATTERNS[1] THEN 1
    ELSE IF SubSeq(msg, i, i + 3) = RGB_COLOR_PATTERNS[2] THEN 2
    ELSE 0

\* str::find(')') on a text: the offset of the first ")", -1 when there is none
find_paren(txt) ==
    IF \E k \in 1..Len(txt) : txt[k] = ")"
    THEN (CHOOSE k \in 1..Len(txt) : txt[k] = ")" /\ \A j \in 1..(k - 1) : txt[j] # ")") - 1
    ELSE -1

HEX_DIGITS == <<"0", "1", "2", "3", "4", "5", "6", "7", "8", "9", "a", "b", "c", "d", "e", "f">>
HEX_DIGITS_UPPER == <<"0", "1", "2", "3", "4", "5", "6", "7", "8", "9", "A", "B", "C", "D", "E", "F">>

is_hex_digit(ch) == \E k \in 1..16 : HEX_DIGITS[k] = ch \/ HEX_DIGITS_UPPER[k] = ch

hex_value(ch) == (CHOOSE k \in 1..16 : HEX_DIGITS[k] = ch \/ HEX_DIGITS_UPPER[k] = ch) - 1

\* Srgb<u8>::from_str: "#rgb" or "#rrggbb", the "#" optional
srgb_from_str(code) ==
    LET hex == IF code # <<>> /\ code[1] = "#" THEN Tail(code) ELSE code
    IN IF \E k \in 1..Len(hex) : ~is_hex_digit(hex[k]) THEN Err("failed to parse hex color")
       ELSE IF Len(hex) = 3
       THEN Ok([k \in 1..3 |-> 17 * hex_value(hex[k])])
       ELSE IF Len(hex) = 6
       THEN Ok([k \in 1..3 |-> 16 * hex_value(hex[2 * k - 1]) + hex_value(hex[2 * k])])
       ELSE Err("failed to parse hex color")

\* str::split(&[',', ';', ' '])
RECURSIVE split_components(_)
split_components(code) ==
    IF \E k \in 1..Len(code) : code[k] \in {",", ";", " "}
    THEN LET k == CHOOSE k \in 1..Len(code) :
                    code[k] \in {",", ";", " "} /\ \A j \in 1..(k - 1) : code[j] \notin {",", ";", " "}
         IN <<SubSeq(code, 1, k - 1)>> \o split_components(SubSeq(code, k + 1, Len(code)))
    ELSE <<code>>

\* u8::from_str of a component: decimal digits, at most 255
RECURSIVE decimal_value(_)
decimal_value(digits) ==
    IF digits = <<>> THEN 0
    ELSE 10 * decimal_value(SubSeq(digits, 1, Len(digits) - 1))
         + hex_value(digits[Len(digits)])

u8_from_str(x) ==
    IF x = <<>> \/ \E k \in 1..Len(x) : ~(is_hex_digit(x[k]) /\ hex_value(x[k]) <= 9)
    THEN Err("failed to parse rgb components")
    ELSE IF decimal_value(x) > U8_MAX THEN Err("failed to parse rgb components")
    ELSE Ok(decimal_value(x))

\* the components of a code that is not a hex colour: the filter keeps the
\* components x for which x.is_empty()
rgb_from_components(code) ==
    LET rgb == SelectSeq(split_components(code), LAMBDA x : x = <<>>)
    IN IF Len(rgb) # 3 THEN Err("wrong number of rgb components")
       ELSE IF \E k \in 1..3 : u8_from_str(rgb[k]).status # "ok"
       THEN Err("failed to parse rgb components")
       ELSE Ok([k \in 1..3 |-> u8_from_str(rgb[k]).val])

\* the closure of replace_all_with for the match of pattern at [at, at + 4):
\* the escape sequence pushed to dst, or the error that ends the replacement.
\* end is the offset of ")" within msg[start..] and is used as an offset in msg
rgb_replacement(msg, at, pattern, mode) ==
    LET start == at + 4
        end == find_paren(SubSeq(msg, start, Len(msg)))
    IN IF end < 0 THEN Err("missing closing brace for color code")
       ELSE IF start - 1 > end THEN Panic("slice index starts after its end")
       ELSE LET code == SubSeq(msg, start, end)
                foreground_background == IF pattern = 1 THEN "Foreground" ELSE "Background"
                rgb == IF code # <<>> /\ code[1] = "#" THEN srgb_from_str(code)
                       ELSE rgb_from_components(code)
            IN IF rgb.status # "ok" THEN rgb
               ELSE Ok(<<to_ansi_string(rgb.val, mode, foreground_background)>>)

\* replace_all_with over the matches of RGB_COLOR_PATTERNS from position i on:
\* the text of a match is replaced, the text after it is copied
RECURSIVE rgb_codes_from(_, _, _, _)
rgb_codes_from(msg, i, mode, dst) ==
    IF i > Len(msg) THEN Ok(dst)
    ELSE LET pattern == rgb_pattern_at(msg, i)
         IN IF pattern = 0 THEN rgb_codes_from(msg, i + 1, mode, Append(dst, msg[i]))
            ELSE LET r == rgb_replacement(msg, i, pattern, mode)
                 IN IF r.status # "ok" THEN r
                    ELSE rgb_codes_from(msg, i + 4, mode, dst \o r.val)

\* color(msg, mode) for any message whose text after the first pass has one byte
\* per character (of the short codes only "&-", a line break, keeps that)
color_result(msg, mode) == rgb_codes_from(color_codes_from(msg, 1), 1, mode, <<>>)

\* color("&~&*", color_mode)
reset_seq(mode) == color(<<"&", "~", "&", "*">>, mode)

\* color("&0" | "&f", color_mode): the static foreground colour of a theme
theme_fore(theme, mode) ==
    color(IF theme = "Light" THEN <<"&", "0">> ELSE <<"&", "f">>, mode)

\* the escape sequence color_text writes after the last grapheme
COLOR_TEXT_RESET == "ESC[39;49m"

----------------------------------------------------------------------------
(* presets.rs: ColorProfile::color_text *)

\* slip: the graphemes cycle through the profile instead of a spread of it
color_text_cycled(cs, txt, mode, foreground_background, space_only) ==
    LET grs == graphemes(txt)
    IN Ok(Flatten([i \in 1..Len(grs) |->
            <<to_ansi_string(cs[((i - 1) % Len(cs)) + 1], mode, foreground_background)>>
            \o grs[i]])
          \o <<COLOR_TEXT_RESET>>)

color_text(cs, txt, mode, foreground_background, space_only) ==
    LET grs == graphemes(txt)
        length == Len(grs)
    IN IF length > U8_MAX THEN Panic("length should fit in u8")
       ELSE LET spread == with_length(cs, length)
            IN IF spread.status # "ok" THEN spread
               ELSE Ok(Flatten([i \in 1..length |->
                        IF space_only /\ grs[i] # <<" ">>
                        THEN (IF i > 1 /\ grs[i - 1] = <<" ">> THEN <<COLOR_TEXT_RESET>> ELSE <<>>)
                             \o grs[i]
                        ELSE <<to_ansi_string(spread.val[i], mode, foreground_background)>>
                             \o grs[i]])
                      \o <<COLOR_TEXT_RESET>>)

----------------------------------------------------------------------------
(* ascii.rs: RawAsciiArt::to_normalized *)

\* NormalizedAsciiArt.w and .h are NonZeroU8: an art without a visible column has
\* no normalized form
to_normalized(raw) ==
    LET size == ascii_size(raw.asc)
        ls == lines_of(raw.asc)
    IN IF size.w = 0 \/ size.h = 0 \/ size.w > U8_MAX \/ size.h > U8_MAX
       THEN Err("failed to get ascii size")
       ELSE Ok([lines |-> [k \in 1..Len(ls) |-> pad_line(ls[k], size.w)],
                w |-> size.w, h |-> size.h, fg |-> raw.fg, bg |-> raw.bg])

----------------------------------------------------------------------------
(* ascii.rs: NormalizedAsciiArt::fill_starting *)

\* slip: the test for leading spaces is dropped, only offset 0 counts
starts_with_placeholder_strict(line) ==
    LET ms == find_iter(line) IN ms # <<>> /\ ms[1].start = 1

\* the first match is at offset 0 or has only spaces before it
starts_with_placeholder(line) ==
    LET ms == find_iter(line)
    IN ms # <<>> /\ (ms[1].start = 1 \/ \A k \in 1..(ms[1].start - 1) : line[k] = " ")

\* slip: the first placeholder of the line is remembered instead of the last
first_placeholder(line, last) ==
    LET ms == find_iter(line)
    IN IF ms = <<>> THEN last ELSE SubSeq(line, ms[1].start, ms[1].end - 1)

\* the last placeholder of a line, or what was there before (<<>> is None)
last_placeholder(line, last) ==
    LET ms == find_iter(line)
    IN IF ms = <<>> THEN last ELSE SubSeq(line, ms[Len(ms)].start, ms[Len(ms)].end - 1)

\* slip: a line without a preceding placeholder is passed through instead of
\* failing the render
RECURSIVE fill_lines_lenient(_, _, _)
fill_lines_lenient(ls, last, acc) ==
    IF ls = <<>> THEN Ok(acc)
    ELSE LET line == Head(ls)
         IN IF starts_with_placeholder(line)
            THEN fill_lines_lenient(Tail(ls), last_placeholder(line, last), Append(acc, line))
            ELSE fill_lines_lenient(Tail(ls), last_placeholder(line, last),
                                    Append(acc, last \o line))

RECURSIVE fill_lines(_, _, _)
fill_lines(ls, last, acc) ==
    IF ls = <<>> THEN Ok(acc)
    ELSE LET line == Head(ls)
         IN IF starts_with_placeholder(line)
            THEN fill_lines(Tail(ls), last_placeholder(line, last), Append(acc, line))
            ELSE IF last = <<>>
                 THEN Err("failed to find neofetch color code from a previous line")
                 ELSE fill_lines(Tail(ls), last_placeholder(line, last),
                                 Append(acc, last \o line))

fill_starting(n) ==
    LET r == fill_lines(n.lines, <<>>, <<>>)
    IN IF r.status = "ok" THEN Ok([n EXCEPT !.lines = r.val]) ELSE r

----------------------------------------------------------------------------
(* ascii.rs: NormalizedAsciiArt::to_recolored *)

SeqToSet(q) == {q[k] : k \in 1..Len(q)}

Patterns == 1..Len(NEOFETCH_COLOR_PATTERNS)

\* byte offset (from 0) of character k of a line
byte_pos(line, k) == str_len(SubSeq(line, 1, k - 1))

FillContext(r) ==
    IF r.status = "err" THEN Err("failed to fill in starting neofetch color codes") ELSE r

\* slip: the reset at the end of a line is left out
with_line_reset_none(ls, reset) == ls

\* Reset colors at end of each line to prevent color bleeding
with_line_reset(ls, reset) == [k \in 1..Len(ls) |-> ls[k] \o reset]

\* the remaining tokens are replaced by the empty string
recolor_horizontal_fb_strip(n, cs, mode, theme) ==
    LET f == fill_starting(n)
    IN IF f.status # "ok" THEN FillContext(f)
       ELSE
        LET reset == reset_seq(mode)
            fg_color == theme_fore(theme, mode)
            fore == [p \in Patterns |->
                        IF p \in SeqToSet(n.fg) THEN fg_color ELSE NEOFETCH_COLOR_PATTERNS[p]]
            ls1 == lines_of(replace_all(join_nl(f.val.lines), fore))
            spread == with_length(cs, n.h)
        IN IF spread.status # "ok" THEN spread
           ELSE IF Len(ls1) > Len(spread.val) THEN Panic("index out of bounds")
           ELSE
            LET back(i) == [p \in Patterns |->
                                IF p \in SeqToSet(n.bg)
                                THEN <<to_ansi_string(spread.val[i], mode, "Foreground")>>
                                ELSE NEOFETCH_COLOR_PATTERNS[p]]
                ls2 == [i \in 1..Len(ls1) |-> replace_all(ls1[i], back(i))]
                ls3 == lines_of(replace_all(join_nl(ls2), [p \in Patterns |-> <<>>]))
            IN Ok(with_line_reset(ls3, reset))

\* (Horizontal, fg or bg not empty)
recolor_horizontal_fb(n, cs, mode, theme) ==
    LET f == fill_starting(n)
    IN IF f.status # "ok" THEN FillContext(f)
       ELSE
        LET reset == reset_seq(mode)
            fg_color == theme_fore(theme, mode)
            fore == [p \in Patterns |->
                        IF p \in SeqToSet(n.fg) THEN fg_color ELSE NEOFETCH_COLOR_PATTERNS[p]]
            ls1 == lines_of(replace_all(join_nl(f.val.lines), fore))
            spread == with_length(cs, n.h)
        IN IF spread.status # "ok" THEN spread
           ELSE IF Len(ls1) > Len(spread.val) THEN Panic("index out of bounds")
           ELSE
            LET back(i) == [p \in Patterns |->
                                IF p \in SeqToSet(n.bg)
                                THEN <<to_ansi_string(spread.val[i], mode, "Foreground")>>
                                ELSE NEOFETCH_COLOR_PATTERNS[p]]
                ls2 == [i \in 1..Len(ls1) |-> replace_all(ls1[i], back(i))]
                ls3 == lines_of(replace_all(join_nl(ls2), [p \in Patterns |-> reset]))
            IN Ok(with_line_reset(ls3, reset))

\* one line of (Vertical, fg or bg not empty): the segment after match k of ms and
\* all segments after it, appended to dst; offset is the number of placeholder
\* bytes before match k
RECURSIVE walk_segments(_, _, _, _, _, _)
walk_segments(line, ms, k, offset, ctx, dst) ==
    IF ms = <<>> THEN Panic("fill_starting ensured each line starts with neofetch color code")
    ELSE
    LET m == ms[k]
        done == k = Len(ms)
        new_offset == offset + (byte_pos(line, m.end) - byte_pos(line, m.start))
        seg_end == IF done THEN Len(line) + 1 ELSE ms[k + 1].start
        txt == SubSeq(line, m.end, seg_end - 1)
        span_start == byte_pos(line, m.end)
        span_end == byte_pos(line, seg_end)
    IN IF new_offset > U8_MAX THEN Panic("offset overflow")
       ELSE
        LET piece ==
                IF m.pattern \in ctx.fg
                THEN Ok(theme_fore(ctx.theme, ctx.mode) \o txt \o reset_seq(ctx.mode))
                ELSE IF m.pattern \in ctx.bg
                THEN LET adjusted_start == span_start - new_offset
                         adjusted_end == span_end - new_offset
                     IN IF adjusted_start < 0 \/ adjusted_end < 0
                        THEN Panic("attempt to subtract with overflow")
                        ELSE IF adjusted_end > Len(ctx.spread) \/ adjusted_start > adjusted_end
                        THEN Panic("range end index out of range for slice")
                        ELSE color_text(SubSeq(ctx.spread, adjusted_start + 1, adjusted_end),
                                        txt, ctx.mode, "Foreground", FALSE)
                ELSE Ok(txt)
        IN IF piece.status # "ok" THEN piece
           ELSE IF done THEN Ok(dst \o piece.val)
           ELSE walk_segments(line, ms, k + 1, new_offset, ctx, dst \o piece.val)

\* collect::<Result<_>>() over the lines: the first failure ends the render
RECURSIVE collect_results(_, _)
collect_results(rs, acc) ==
    IF rs = <<>> THEN Ok(acc)
    ELSE IF Head(rs).status # "ok" THEN Head(rs)
    ELSE collect_results(Tail(rs), Append(acc, Head(rs).val))

\* slip: the profile is spread to the height of the art, as in Horizontal
recolor_vertical_fb_height(n, cs, mode, theme) ==
    LET f == fill_starting(n)
    IN IF f.status # "ok" THEN FillContext(f)
       ELSE
        LET spread == with_length(cs, n.h)
        IN IF spread.status # "ok" THEN spread
           ELSE
            LET ctx == [spread |-> spread.val, fg |-> SeqToSet(n.fg), bg |-> SeqToSet(n.bg),
                        mode |-> mode, theme |-> theme]
                ls == f.val.lines
            IN collect_results(
                    [k \in 1..Len(ls) |-> walk_segments(ls[k], find_iter(ls[k]), 1, 0, ctx, <<>>)],
                    <<>>)

\* (Vertical, fg or bg not empty)
recolor_vertical_fb(n, cs, mode, theme) ==
    LET f == fill_starting(n)
    IN IF f.status # "ok" THEN FillContext(f)
       ELSE
        LET spread == with_length(cs, n.w)
        IN IF spread.status # "ok" THEN spread
           ELSE
            LET ctx == [spread |-> spread.val, fg |-> SeqToSet(n.fg), bg |-> SeqToSet(n.bg),
                        mode |-> mode, theme |-> theme]
                ls == f.val.lines
            IN collect_results(
                    [k \in 1..Len(ls) |-> walk_segments(ls[k], find_iter(ls[k]), 1, 0, ctx, <<>>)],
                    <<>>)

\* (Horizontal | Vertical, fg and bg empty)
\* variant that cycles through the palette instead of spreading it
recolor_plain_cycled(n, align, cs, mode) ==
    LET reset == reset_seq(mode)
        ls == lines_of(strip_all(join_nl(n.lines)))
    IN IF align = "Horizontal"
       THEN IF Len(cs) = 0 THEN Panic("attempt to divide by zero")
            ELSE Ok([i \in 1..Len(ls) |->
                        <<to_ansi_string(cs[((i - 1) % Len(cs)) + 1], mode, "Foreground")>>
                        \o ls[i] \o reset])
       ELSE collect_results(
                [i \in 1..Len(ls) |-> color_text(cs, ls[i], mode, "Foreground", FALSE)], <<>>)

recolor_plain(n, align, cs, mode) ==
    LET reset == reset_seq(mode)
        ls == lines_of(strip_all(join_nl(n.lines)))
    IN IF align = "Horizontal"
       THEN LET spread == with_length(cs, n.h)
            IN IF spread.status # "ok" THEN spread
               ELSE IF Len(ls) > Len(spread.val) THEN Panic("index out of bounds")
               ELSE Ok([i \in 1..Len(ls) |->
                            <<to_ansi_string(spread.val[i], mode, "Foreground")>>
                            \o ls[i] \o reset])
       ELSE collect_results(
                [i \in 1..Len(ls) |-> color_text(cs, ls[i], mode, "Foreground", FALSE)], <<>>)

\* variant that indexes the profile itself instead of its unique colours
recolor_custom_raw_profile(n, custom_colors, cs, mode) ==
    LET f == fill_starting(n)
    IN IF f.status # "ok" THEN FillContext(f)
       ELSE
        LET reset == reset_seq(mode)
        IN IF \E ai \in DOMAIN custom_colors : custom_colors[ai] >= Len(cs)
           THEN Panic("index out of bounds")
           ELSE
            LET replacements == [p \in Patterns |->
                    IF p \in DOMAIN custom_colors
                    THEN <<to_ansi_string(cs[custom_colors[p] + 1], mode, "Foreground")>>
                    ELSE <<>>]
                ls == lines_of(replace_all(join_nl(f.val.lines), replacements))
            IN Ok(with_line_reset(ls, reset))

\* (Custom { colors: custom_colors }, _): custom_colors maps slots to palette indices
recolor_custom(n, custom_colors, cs, mode) ==
    LET f == fill_starting(n)
    IN IF f.status # "ok" THEN FillContext(f)
       ELSE
        LET reset == reset_seq(mode)
            uniq == unique_colors(cs)
        IN IF \E ai \in DOMAIN custom_colors : custom_colors[ai] >= Len(uniq)
           THEN Panic("index out of bounds")
           ELSE
            LET replacements == [p \in Patterns |->
                    IF p \in DOMAIN custom_colors
                    THEN <<to_ansi_string(uniq[custom_colors[p] + 1], mode, "Foreground")>>
                    ELSE <<>>]
                ls == lines_of(replace_all(join_nl(f.val.lines), replacements))
            IN Ok(with_line_reset(ls, reset))

recolored_lines(n, color_align, custom_colors, cs, mode, theme) ==
    IF color_align = "Horizontal" /\ (n.fg # <<>> \/ n.bg # <<>>)
    THEN recolor_horizontal_fb(n, cs, mode, theme)
    ELSE IF color_align = "Vertical" /\ (n.fg # <<>> \/ n.bg # <<>>)
    THEN recolor_vertical_fb(n, cs, mode, theme)
    ELSE IF color_align \in {"Horizontal", "Vertical"}
    THEN recolor_plain(n, color_align, cs, mode)
    ELSE recolor_custom(n, custom_colors, cs, mode)

to_recolored(n, color_align, custom_colors, cs, mode, theme) ==
    LET r == recolored_lines(n, color_align, custom_colors, cs, mode, theme)
    IN IF r.status = "ok" THEN Ok([lines |-> r.val, w |-> n.w, h |-> n.h]) ELSE r

\* whether to_recolored calls fill_starting for this alignment and art
calls_fill_starting(n, color_align) ==
    color_align = "Custom" \/ n.fg # <<>> \/ n.bg # <<>>

----------------------------------------------------------------------------
(* Profile operations as a state machine: a profile is built and one of its  *)
(* operations is called; the operations borrow the receiver (&self), so a     *)
(* behaviour with one call per profile covers every receiver and argument.    *)

NoCall == [op |-> "none", length |-> 0, weights |-> <<>>]
NoRet == Ok(<<>>)

Profiles == SeqsUpTo(Palette, MaxColors)
WeightVectors == SeqsUpTo(0..MaxWeight, MaxColors)

\* target lengths (u8): the small ones and the largest ones
TargetLengths == (0..MaxLength) \cup {U8_MAX - 1, U8_MAX}

IdleStrip == text = <<>> /\ strip1 = Err("none") /\ strip2 = Err("none")
IdleArt ==
    /\ art = [asc |-> <<>>, fg |-> <<>>, bg |-> <<>>]
    /\ profile = <<>>
    /\ norm = Err("none")
    /\ filled = Err("none")
    /\ req = [align |-> "none", custom |-> <<>>, mode |-> "none", theme |-> "none"]
    /\ rec = Err("none")

IdleProfile == colors = <<>> /\ call = NoCall /\ ret = NoRet

NoUtilCall == [op |-> "none"]
IdleUtil == ucall = NoUtilCall /\ uret = Err("none")

IdleAnim ==
    /\ key_pressed = FALSE
    /\ reader = "none"
    /\ stdin = "none"
    /\ animation = "none"
    /\ frame = 0
    /\ frames_since_read = 0
    /\ frames_since_store = 0

IdleWizard ==
    /\ wizard = "none"
    /\ presets = 0
    /\ flags_per_row = 0
    /\ rows_per_page = 0
    /\ num_pages = 0
    /\ pages = <<>>
    /\ page = 0
    /\ selection = [input |-> <<>>, option |-> <<>>]

InitProfile ==
    /\ colors \in Profiles
    /\ call = NoCall
    /\ ret = NoRet
    /\ IdleStrip
    /\ IdleArt
    /\ IdleUtil
    /\ IdleAnim
    /\ IdleWizard

WithLength(length) ==
    /\ call = NoCall
    /\ call' = [op |-> "with_length", length |-> length, weights |-> <<>>]
    /\ ret' = with_length(colors, length)
    /\ UNCHANGED <<colors, stripVars, artVars, utilVars, animVars, wizVars>>

WithWeights(weights) ==
    /\ call = NoCall
    /\ call' = [op |-> "with_weights", length |-> 0, weights |-> weights]
    /\ ret' = with_weights(colors, weights)
    /\ UNCHANGED <<colors, stripVars, artVars, utilVars, animVars, wizVars>>

UniqueColors ==
    /\ call = NoCall
    /\ call' = [op |-> "unique_colors", length |-> 0, weights |-> <<>>]
    /\ ret' = Ok(unique_colors(colors))
    /\ UNCHANGED <<colors, stripVars, artVars, utilVars, animVars, wizVars>>

NextProfile ==
    \/ \E length \in TargetLengths : WithLength(length)
    \/ \E weights \in WeightVectors : WithWeights(weights)
    \/ UniqueColors

SpecProfile == InitProfile /\ [][NextProfile]_vars

----------------------------------------------------------------------------
(* The scanner on its own: strip a text, then strip the result again *)

\* whole tokens, the two halves of a token, and other characters
StripPieces == {Token("1"), Token("6"), <<"$", "{", "c">>, <<"1", "}">>, <<"A">>, <<"$">>}

StripTexts == {Flatten(ps) : ps \in SeqsUpTo(StripPieces, MaxStripPieces)}

InitStrip ==
    /\ text \in StripTexts
    /\ strip1 = Err("none")
    /\ strip2 = Err("none")
    /\ IdleProfile
    /\ IdleArt
    /\ IdleUtil
    /\ IdleAnim
    /\ IdleWizard

StripOnce ==
    /\ strip1.status = "err"
    /\ strip1' = Ok(strip_all(text))
    /\ UNCHANGED <<text, strip2, profileVars, artVars, utilVars, animVars, wizVars>>

StripAgain ==
    /\ strip1.status = "ok"
    /\ strip2.status = "err"
    /\ strip2' = Ok(strip_all(strip1.val))
    /\ UNCHANGED <<text, strip1, profileVars, artVars, utilVars, animVars, wizVars>>

NextStrip == StripOnce \/ StripAgain

SpecStrip == InitStrip /\ [][NextStrip]_vars

----------------------------------------------------------------------------
(* The render pipeline: RawAsciiArt -> to_normalized -> to_recolored *)

ArtPieces == {Token("1"), Token("2"), Token("3"), <<"A">>, <<" ">>, <<"e", "ACUTE">>, <<"\n">>}

\* raw arts: at least one character, no newline at the very end (str::lines and
\* split on newline then give the same lines)
RawTexts ==
    {t \in {Flatten(ps) : ps \in SeqsUpTo(ArtPieces, MaxArtPieces)} :
        t # <<>> /\ t[Len(t)] # "\n"}

\* fg and bg slots of an art: none, or one of the pairs of ColorAlignment::fore_back
ForeBacks == {<<<<>>, <<>>>>, <<<<2>>, <<1>>>>, <<<<1>>, <<2>>>>}

ArtProfiles == {<<Red, Green>>, <<Red, Red, Blue>>}

Alignments == {"Horizontal", "Vertical", "Custom"}
Modes == {"Rgb", "Ansi256"}
Themes == {"Light", "Dark"}

\* custom_colors maps of Custom alignments
NoCustom == <<>>
CustomMaps == {(1 :> 0) @@ (2 :> 1), (2 :> 0), (1 :> 2)}

Init ==
    /\ \E t \in RawTexts, fb \in ForeBacks : art = [asc |-> t, fg |-> fb[1], bg |-> fb[2]]
    /\ profile \in ArtProfiles
    /\ norm = Err("none")
    /\ filled = Err("none")
    /\ req = [align |-> "none", custom |-> NoCustom, mode |-> "none", theme |-> "none"]
    /\ rec = Err("none")
    /\ IdleProfile
    /\ IdleStrip
    /\ IdleUtil
    /\ IdleAnim
    /\ IdleWizard

ToNormalized ==
    /\ norm.status = "err"
    /\ norm.val = "none"
    /\ norm' = to_normalized(art)
    /\ UNCHANGED <<art, profile, filled, req, rec, profileVars, stripVars, utilVars, animVars, wizVars>>

\* one render per normalized art, as in the main flow of the binary
ToRecolored(color_align, custom_colors, color_mode, theme) ==
    /\ norm.status = "ok"
    /\ req.align = "none"
    /\ req' = [align |-> color_align, custom |-> custom_colors, mode |-> color_mode,
               theme |-> theme]
    /\ filled' = IF calls_fill_starting(norm.val, color_align)
                 THEN fill_starting(norm.val)
                 ELSE [status |-> "not called", val |-> "none"]
    /\ rec' = to_recolored(norm.val, color_align, custom_colors, profile, color_mode, theme)
    /\ UNCHANGED <<art, profile, norm, profileVars, stripVars, utilVars, animVars, wizVars>>

Next ==
    \/ ToNormalized
    \/ \E a \in {"Horizontal", "Vertical"}, m \in Modes, th \in Themes :
            ToRecolored(a, NoCustom, m, th)
    \/ \E c \in CustomMaps, m \in Modes, th \in Themes : ToRecolored("Custom", c, m, th)

Spec == Init /\ [][Next]_vars

----------------------------------------------------------------------------
(* fill_starting on its own: normalize an art, then fill its lines *)

FillPieces == {Token("1"), Token("2"), <<"A">>, <<" ">>, <<"\t">>, <<"\n">>}

FillTexts ==
    {t \in {Flatten(ps) : ps \in SeqsUpTo(FillPieces, MaxFillPieces)} :
        t # <<>> /\ t[Len(t)] # "\n"}

InitFill ==
    /\ \E t \in FillTexts : art = [asc |-> t, fg |-> <<>>, bg |-> <<>>]
    /\ profile = <<>>
    /\ norm = Err("none")
    /\ filled = Err("none")
    /\ req = [align |-> "none", custom |-> NoCustom, mode |-> "none", theme |-> "none"]
    /\ rec = Err("none")
    /\ IdleProfile
    /\ IdleStrip
    /\ IdleUtil
    /\ IdleAnim
    /\ IdleWizard

FillStarting ==
    /\ norm.status = "ok"
    /\ filled.status = "err"
    /\ filled.val = "none"
    /\ filled' = fill_starting(norm.val)
    /\ UNCHANGED <<art, profile, norm, req, rec, profileVars, stripVars, utilVars, animVars, wizVars>>

NextFill ==
    \/ ToNormalized
    \/ FillStarting

SpecFill == InitFill /\ [][NextFill]_vars

----------------------------------------------------------------------------
(* color_util.rs and utils.rs: functions called on their own *)

Black == <<0, 0, 0>>
White == <<255, 255, 255>>
UtilColors == Palette \cup {Black, White}

\* enum AnsiMode
AnsiModes == {"Ansi16", "Ansi256", "Rgb"}
ForegroundBackgrounds == {"Foreground", "Background"}

\* impl ToAnsiString for Srgb<u8>, every arm of the match on mode
srgb_to_ansi_string(c, mode, foreground_background) ==
    IF mode = "Ansi16" THEN Panic("not implemented")
    ELSE Ok(to_ansi_string(c, mode, foreground_background))

\* f32 values: a finite value is counted in hundredths, so 0.0 is 0 and 1.0 is 100
Finite(n) == [kind |-> "finite", n |-> n]
NaN == [kind |-> "nan", n |-> 0]
Infinity == [kind |-> "inf", n |-> 1]
NegInfinity == [kind |-> "inf", n |-> -1]

\* a <= b on f32: false as soon as one side is NaN
f32_le(a, b) ==
    IF a.kind = "nan" \/ b.kind = "nan" THEN FALSE
    ELSE IF a.kind = "inf" THEN a.n = -1 \/ (b.kind = "inf" /\ b.n = 1)
    ELSE IF b.kind = "inf" THEN b.n = 1
    ELSE a.n <= b.n

LIGHTNESS_MIN == Finite(0)
LIGHTNESS_MAX == Finite(100)

\* (Self::MIN..=Self::MAX).contains(&value)
range_contains(lo, hi, value) == f32_le(lo, value) /\ f32_le(value, hi)

\* Lightness::new
Lightness_new(value) ==
    IF ~range_contains(LIGHTNESS_MIN, LIGHTNESS_MAX, value)
    THEN Err([error |-> "OutOfRange", value |-> value])
    ELSE Ok(value)

\* #[derive(Deserialize)] on struct Lightness(f32): the number read from the
\* configuration file becomes the field, Lightness::new is not called
Lightness_deserialize(value) == Ok(value)

FiniteInputs == {Finite(n) : n \in (0 - MaxLightnessStep)..(100 + MaxLightnessStep)}
F32Inputs == FiniteInputs \cup {NaN, Infinity, NegInfinity}

\* std::process::ExitStatus on Unix: the child exited with a code or was
\* terminated by a signal
Exited(code) == [kind |-> "exited", n |-> code]
Signaled(signal) == [kind |-> "signaled", n |-> signal]
ExitStatuses == {Exited(c) : c \in 0..MaxExitCode} \cup {Signaled(g) : g \in 1..MaxSignal}

\* one layer of an anyhow error: the message and the number it names (-1: none)
Msg(m, n) == [msg |-> m, arg |-> n]

\* slip: a status without exit code counts as success
process_command_status_code_only(status) ==
    IF status.kind = "exited" /\ status.n # 0
    THEN Err(<<Msg("child process exited with status code", status.n)>>)
    ELSE Ok("unit")

\* utils.rs: process_command_status
process_command_status(status) ==
    IF status.kind = "exited" /\ status.n = 0 THEN Ok("unit")
    ELSE IF status.kind = "exited"
         THEN Err(<<Msg("child process exited with status code", status.n)>>)
         ELSE Err(<<Msg("child process terminated by signal", status.n)>>)

\* Result::context: a layer around an error, nothing around a success
context(r, m) == IF r.status = "err" THEN Err(<<Msg(m, -1)>> \o r.val) ELSE r

\* what neofetch_path() returns: Ok(Some(path)), Ok(None) or Err
PathLookups == {"found", "none", "error"}

\* make_neofetch_command: the command, or the reason there is none
make_neofetch_command(lookup) ==
    IF lookup = "error"
    THEN Err(<<Msg("failed to get neofetch path", -1), Msg("failed to check existence", -1)>>)
    ELSE IF lookup = "none" THEN Err(<<Msg("neofetch command not found", -1)>>)
    ELSE Ok("bash neofetch")

\* run_neofetch, after the ascii art is written to its file: the result and
\* whether a child process was spawned
run_neofetch(lookup, status) ==
    LET command == make_neofetch_command(lookup)
    IN IF command.status # "ok" THEN [result |-> command, spawned |-> FALSE]
       ELSE [result |-> context(process_command_status(status),
                                "neofetch command exited with error"),
             spawned |-> TRUE]

\* ANSI256_GRAYSCALE_COLORS: the grey entries of the 256-colour palette
ANSI256_GRAYSCALE_COLORS ==
    <<16, 59, 102, 145, 188, 231, 232, 233, 234, 235, 236, 237, 238, 239, 240, 241, 242,
      243, 244, 245, 246, 247, 248, 249, 250, 251, 252, 253, 254, 255>>

\* ansi_colours::rgb_from_ansi256 for the colour cube (16..231) and the grey
\* ramp (232..255)
cube_value(level) == IF level = 0 THEN 0 ELSE 55 + 40 * level

rgb_from_ansi256(indexed) ==
    IF indexed >= 232
    THEN LET v == 8 + 10 * (indexed - 232) IN <<v, v, v>>
    ELSE LET n == indexed - 16
         IN <<cube_value(n \div 36), cube_value((n \div 6) % 6), cube_value(n % 6)>>

\* Lab::improved_difference between two greys, up to a strictly increasing
\* rescaling: against black or white the CIEDE2000 difference of a grey grows
\* with the distance of the lightness, hence of the sRGB level
improved_difference(c, background) ==
    IF c[1] >= background[1] THEN c[1] - background[1] ELSE background[1] - c[1]

\* slip: a later candidate with an equal difference replaces the best one
RECURSIVE best_contrast_last(_, _, _)
best_contrast_last(diffs, k, best) ==
    IF k > Len(diffs) THEN best
    ELSE best_contrast_last(diffs, k + 1,
            IF best = 0 THEN k ELSE IF diffs[k] >= diffs[best] THEN k ELSE best)

\* the loop over the ramp: best is the index of the best candidate so far
\* (0 is None); candidate k replaces it when diff > best_diff
RECURSIVE best_contrast(_, _, _)
best_contrast(diffs, k, best) ==
    IF k > Len(diffs) THEN best
    ELSE best_contrast(diffs, k + 1,
            IF best = 0 THEN k ELSE IF diffs[k] > diffs[best] THEN k ELSE best)

\* the differences of the ramp entries from a background
ramp_differences(background) ==
    [i \in 1..Len(ANSI256_GRAYSCALE_COLORS) |->
        improved_difference(rgb_from_ansi256(ANSI256_GRAYSCALE_COLORS[i]), background)]

\* impl ContrastGrayscale for Srgb<u8>: the luma of the best candidate
contrast_grayscale(background) ==
    LET best == best_contrast(ramp_differences(background), 1, 0)
    IN IF best = 0 THEN Panic("best_contrast should not be None")
       ELSE Ok(rgb_from_ansi256(ANSI256_GRAYSCALE_COLORS[best])[1])

\* backgrounds of contrast_grayscale
GreyBackgrounds == {Black, White}

\* difference values the loop can see: two candidates stand out of the others
DiffTables ==
    {[i \in 1..Len(ANSI256_GRAYSCALE_COLORS) |-> IF i = p THEN a ELSE IF i = q THEN b ELSE c] :
        p \in 1..Len(ANSI256_GRAYSCALE_COLORS), q \in 1..Len(ANSI256_GRAYSCALE_COLORS),
        a \in 0..MaxDiff, b \in 0..MaxDiff, c \in 0..1}

\* messages handed to color
ColorPieces ==
    { RGB_COLOR_PATTERNS[1], RGB_COLOR_PATTERNS[2], <<"#", "f", "f", "0", "0", "0", "0">>,
      <<"#", "f", "0", "0">>, <<"1", ",", "2", ",", "3">>, <<")">>, <<"A", "A", "A", "A">>,
      <<"&", "-">> }

ColorTexts == {Flatten(ps) : ps \in SeqsUpTo(ColorPieces, MaxColorPieces)}

InitUtil ==
    /\ IdleUtil
    /\ IdleAnim
    /\ IdleWizard
    /\ IdleProfile
    /\ IdleStrip
    /\ IdleArt

ToAnsiString(c, mode, foreground_background) ==
    /\ ucall = NoUtilCall
    /\ ucall' = [op |-> "to_ansi_string", c |-> c, mode |-> mode,
                 foreground_background |-> foreground_background]
    /\ uret' = srgb_to_ansi_string(c, mode, foreground_background)
    /\ UNCHANGED <<profileVars, stripVars, artVars, animVars, wizVars>>

LightnessNew(value) ==
    /\ ucall = NoUtilCall
    /\ ucall' = [op |-> "Lightness::new", value |-> value]
    /\ uret' = Lightness_new(value)
    /\ UNCHANGED <<profileVars, stripVars, artVars, animVars, wizVars>>

\* Config::read_from_file: a JSON number in the "lightness" field
LightnessDeserialize(value) ==
    /\ ucall = NoUtilCall
    /\ ucall' = [op |-> "Lightness::deserialize", value |-> value]
    /\ uret' = Lightness_deserialize(value)
    /\ UNCHANGED <<profileVars, stripVars, artVars, animVars, wizVars>>

ProcessCommandStatus(status) ==
    /\ ucall = NoUtilCall
    /\ ucall' = [op |-> "process_command_status", status |-> status]
    /\ uret' = process_command_status(status)
    /\ UNCHANGED <<profileVars, stripVars, artVars, animVars, wizVars>>

RunNeofetch(lookup, status) ==
    /\ ucall = NoUtilCall
    /\ ucall' = [op |-> "run_neofetch", lookup |-> lookup, status |-> status]
    /\ uret' = run_neofetch(lookup, status)
    /\ UNCHANGED <<profileVars, stripVars, artVars, animVars, wizVars>>

ContrastGrayscale(background) ==
    /\ ucall = NoUtilCall
    /\ ucall' = [op |-> "contrast_grayscale", background |-> background]
    /\ uret' = contrast_grayscale(background)
    /\ UNCHANGED <<profileVars, stripVars, artVars, animVars, wizVars>>

\* the loop of contrast_grayscale on the differences the metric returned
BestContrast(diffs) ==
    /\ ucall = NoUtilCall
    /\ ucall' = [op |-> "best_contrast", diffs |-> diffs]
    /\ uret' = Ok(best_contrast(diffs, 1, 0))
    /\ UNCHANGED <<profileVars, stripVars, artVars, animVars, wizVars>>

Color(msg, mode) ==
    /\ ucall = NoUtilCall
    /\ ucall' = [op |-> "color", msg |-> msg, mode |-> mode]
    /\ uret' = color_result(msg, mode)
    /\ UNCHANGED <<profileVars, stripVars, artVars, animVars, wizVars>>

NextUtil ==
    \/ \E c \in UtilColors, mode \in AnsiModes, fb \in ForegroundBackgrounds :
            ToAnsiString(c, mode, fb)
    \/ \E value \in F32Inputs : LightnessNew(value)
    \/ \E value \in FiniteInputs : LightnessDeserialize(value)
    \/ \E status \in ExitStatuses : ProcessCommandStatus(status)
    \/ \E lookup \in PathLookups, status \in ExitStatuses : RunNeofetch(lookup, status)
    \/ \E background \in GreyBackgrounds : ContrastGrayscale(background)
    \/ \E diffs \in DiffTables : BestContrast(diffs)
    \/ \E msg \in ColorTexts, mode \in Modes : Color(msg, mode)

SpecUtil == InitUtil /\ [][NextUtil]_vars

----------------------------------------------------------------------------
(* pride_month.rs: start_animation, the animation loop and its reader thread *)

\* const SPEED: u8
SPEED == 2

Saturating(n) == IF n < MaxFrames THEN n + 1 ELSE MaxFrames

\* after thread::spawn, before the first iteration of the loop
InitAnim ==
    /\ key_pressed = FALSE
    /\ reader = "read"
    /\ stdin = "none"
    /\ animation = "clear"
    /\ frame = 0
    /\ frames_since_read = 0
    /\ frames_since_store = 0
    /\ IdleProfile
    /\ IdleStrip
    /\ IdleArt
    /\ IdleUtil
    /\ IdleWizard

\* reader thread: io::stdin().lines().next() returns Some(Ok(_))
ReaderLine ==
    /\ reader = "read"
    /\ reader' = "store"
    /\ stdin' = "line"
    /\ UNCHANGED <<key_pressed, animation, frame, frames_since_read, frames_since_store>>
    /\ UNCHANGED <<profileVars, stripVars, artVars, utilVars, wizVars>>

\* reader thread: Some(Err(err)) or None (EOF): the thread loops and reads again
ReaderNoLine(outcome) ==
    /\ reader = "read"
    /\ stdin' = outcome
    /\ UNCHANGED <<key_pressed, reader, animation, frame, frames_since_read,
                   frames_since_store>>
    /\ UNCHANGED <<profileVars, stripVars, artVars, utilVars, wizVars>>

\* reader thread: key_pressed.store(true, Ordering::Release); break
ReaderStore ==
    /\ reader = "store"
    /\ key_pressed' = TRUE
    /\ reader' = "done"
    /\ UNCHANGED <<stdin, animation, frame, frames_since_read, frames_since_store>>
    /\ UNCHANGED <<profileVars, stripVars, artVars, utilVars, wizVars>>

\* loop: clear_screen(None, color_mode, false)?, the start of a frame
ClearScreen(ok) ==
    /\ animation = "clear"
    /\ animation' = IF ok THEN "draw" ELSE "failed"
    /\ frames_since_read' =
            IF reader \in {"store", "done"} THEN Saturating(frames_since_read)
            ELSE frames_since_read
    /\ frames_since_store' =
            IF key_pressed THEN Saturating(frames_since_store) ELSE frames_since_store
    /\ UNCHANGED <<key_pressed, reader, stdin, frame>>
    /\ UNCHANGED <<profileVars, stripVars, artVars, utilVars, wizVars>>

\* loop: draw_frame(frame.0)?; frame += usize::from(SPEED)
DrawFrame(ok) ==
    /\ animation = "draw"
    /\ animation' = IF ok THEN "sleep" ELSE "failed"
    /\ frame' = IF ok THEN (frame + SPEED) % FrameWrap ELSE frame
    /\ UNCHANGED <<key_pressed, reader, stdin, frames_since_read, frames_since_store>>
    /\ UNCHANGED <<profileVars, stripVars, artVars, utilVars, wizVars>>

\* loop: thread::sleep(frame_delay)
Sleep ==
    /\ animation = "sleep"
    /\ animation' = "load"
    /\ UNCHANGED <<key_pressed, reader, stdin, frame, frames_since_read, frames_since_store>>
    /\ UNCHANGED <<profileVars, stripVars, artVars, utilVars, wizVars>>

\* slip: the loop ends whatever the flag holds
LoadFlagIgnored ==
    /\ animation = "load"
    /\ animation' = "exited"
    /\ UNCHANGED <<key_pressed, reader, stdin, frame, frames_since_read, frames_since_store>>
    /\ UNCHANGED <<profileVars, stripVars, artVars, utilVars, wizVars>>

\* loop: if key_pressed.load(Ordering::Acquire) { break; }
LoadFlag ==
    /\ animation = "load"
    /\ animation' = IF key_pressed THEN "exited" ELSE "clear"
    /\ UNCHANGED <<key_pressed, reader, stdin, frame, frames_since_read, frames_since_store>>
    /\ UNCHANGED <<profileVars, stripVars, artVars, utilVars, wizVars>>

\* the steps of the main thread
AnimationStep ==
    \/ \E ok \in BOOLEAN : ClearScreen(ok)
    \/ \E ok \in BOOLEAN : DrawFrame(ok)
    \/ Sleep
    \/ LoadFlag

NextAnim ==
    \/ ReaderLine
    \/ \E outcome \in {"error", "eof"} : ReaderNoLine(outcome)
    \/ ReaderStore
    \/ AnimationStep

SpecAnim == InitAnim /\ [][NextAnim]_vars

\* both threads are scheduled again and again: the main thread goes on while it
\* is in the loop, the reader stores the flag once it has a line
FairSpecAnim == SpecAnim /\ WF_vars(AnimationStep) /\ WF_vars(ReaderStore)

----------------------------------------------------------------------------
(* bin/hyfetch.rs: create_config, the choice of a preset; neofetch_util.rs:   *)
(* literal_input                                                              *)

\* <Preset as VariantNames>::VARIANTS: the first names of the table
PRESET_VARIANTS ==
    << <<"r", "a", "i", "n", "b", "o", "w">>,
       <<"n", "o", "n", "b", "i", "n", "a", "r", "y">>,
       <<"p", "a", "n", "s", "e", "x", "u", "a", "l">>,
       <<"n", "e", "u", "t", "r", "o", "i", "s">>,
       <<"p", "r", "o", "g", "r", "e", "s", "s">>,
       <<"a", "g", "e", "n", "d", "e", "r">> >>

OPTION_NEXT == <<"n", "e", "x", "t">>
OPTION_PREV == <<"p", "r", "e", "v">>

\* Preset::Rainbow.as_ref(), the default of the prompt
DEFAULT_PRESET == PRESET_VARIANTS[1]

\* str::to_lowercase, for the capitals of the lines considered
to_lowercase(txt) ==
    [k \in 1..Len(txt) |->
        IF txt[k] = "N" THEN "n" ELSE IF txt[k] = "P" THEN "p" ELSE txt[k]]

starts_with(txt, prefix) ==
    Len(prefix) <= Len(txt) /\ SubSeq(txt, 1, Len(prefix)) = prefix

\* <<>> is None
find_selection(sel, options) ==
    IF sel = <<>> THEN <<>>
    ELSE IF \E k \in 1..Len(options) : to_lowercase(options[k]) = sel
    THEN options[CHOOSE k \in 1..Len(options) :
                    /\ to_lowercase(options[k]) = sel
                    /\ \A j \in 1..(k - 1) : to_lowercase(options[j]) # sel]
    ELSE IF \E k \in 1..Len(options) : starts_with(to_lowercase(options[k]), sel)
    THEN options[CHOOSE k \in 1..Len(options) :
                    /\ starts_with(to_lowercase(options[k]), sel)
                    /\ \A j \in 1..(k - 1) : ~starts_with(to_lowercase(options[j]), sel)]
    ELSE <<>>

\* slip: next and prev are accepted whether they are offered or not
literal_input_any(line, options, default) ==
    find_selection(IF line = <<>> THEN default ELSE to_lowercase(line),
                   options \o <<OPTION_NEXT, OPTION_PREV>>)

\* one line read by literal_input: the option selected, <<>> when the line is
\* not a selection and the prompt is repeated
literal_input(line, options, default) ==
    find_selection(IF line = <<>> THEN default ELSE to_lowercase(line), options)

\* max(longest preset name, 20)
SPACING == Max({20} \cup {Len(PRESET_VARIANTS[k]) : k \in 1..Len(PRESET_VARIANTS)})

div_ceil(a, b) == (a + b - 1) \div b

\* slice::chunks: the sizes of the chunks of n items taken size at a time
RECURSIVE chunks(_, _)
chunks(n, size) ==
    IF n = 0 THEN <<>>
    ELSE IF n <= size THEN <<n>>
    ELSE <<size>> \o chunks(n - size, size)

\* terminal sizes and lines typed by the user
TermWidths == {11 * k : k \in 0..MaxTermUnits}
TermHeights == {6 * k : k \in 0..MaxTermUnits}
InputLines ==
    { <<>>, OPTION_NEXT, OPTION_PREV, <<"n">>, <<"n", "e">>, <<"p", "r">>, <<"N", "e", "x", "t">>,
      <<"x">>, PRESET_VARIANTS[2] }

\* before the flags are laid out; the presets are built in
InitWizard ==
    /\ wizard = "start"
    /\ presets \in 1..MaxPresets
    /\ flags_per_row = 0
    /\ rows_per_page = 0
    /\ num_pages = 0
    /\ pages = <<>>
    /\ page = 0
    /\ selection = [input |-> <<>>, option |-> <<>>]
    /\ IdleProfile
    /\ IdleStrip
    /\ IdleArt
    /\ IdleUtil
    /\ IdleAnim

\* flags per row, rows per page, number of pages and the pages themselves
LayOutPages(term_w, term_h) ==
    /\ wizard = "start"
    /\ LET per_row == term_w \div (SPACING + 2)
           rows == Max({1, (IF term_h > 13 THEN term_h - 13 ELSE 0) \div 5})
       IN IF per_row > U8_MAX \/ rows > U8_MAX \/ per_row = 0
          THEN /\ wizard' = "panic"
               /\ flags_per_row' = IF per_row > U8_MAX THEN 0 ELSE per_row
               /\ rows_per_page' = IF rows > U8_MAX THEN 0 ELSE rows
               /\ UNCHANGED <<num_pages, pages, page>>
          ELSE /\ wizard' = IF div_ceil(presets, per_row * rows) > U8_MAX
                            THEN "panic" ELSE "prompt"
               /\ flags_per_row' = per_row
               /\ rows_per_page' = rows
               /\ num_pages' = div_ceil(presets, per_row * rows)
               /\ pages' = LET sizes == chunks(presets, per_row * rows)
                           IN [k \in 1..Len(sizes) |-> chunks(sizes[k], per_row)]
               /\ page' = 0
    /\ UNCHANGED <<presets, selection>>
    /\ UNCHANGED <<profileVars, stripVars, artVars, utilVars, animVars>>

\* one line typed at the prompt of an iteration of the loop
Select(line) ==
    /\ wizard = "prompt"
    /\ IF page >= Len(pages) \/ num_pages = 0
       THEN /\ wizard' = "panic"
            /\ UNCHANGED <<page, selection>>
       ELSE LET opts == SubSeq(PRESET_VARIANTS, 1, presets)
                        \o (IF page < num_pages - 1 THEN <<OPTION_NEXT>> ELSE <<>>)
                        \o (IF page > 0 THEN <<OPTION_PREV>> ELSE <<>>)
                selected == literal_input(line, opts, DEFAULT_PRESET)
            IN  /\ selection' = [input |-> line, option |-> selected]
                /\ IF selected = <<>> THEN UNCHANGED <<wizard, page>>
                   ELSE IF selected = OPTION_NEXT
                   THEN IF page + 1 > U8_MAX
                        THEN wizard' = "panic" /\ UNCHANGED page
                        ELSE page' = page + 1 /\ UNCHANGED wizard
                   ELSE IF selected = OPTION_PREV
                   THEN IF page = 0
                        THEN wizard' = "panic" /\ UNCHANGED page
                        ELSE page' = page - 1 /\ UNCHANGED wizard
                   ELSE wizard' = "selected" /\ UNCHANGED page
    /\ UNCHANGED <<presets, flags_per_row, rows_per_page, num_pages, pages>>
    /\ UNCHANGED <<profileVars, stripVars, artVars, utilVars, animVars>>

\* reading the line fails: create_config returns the error
ReadFails ==
    /\ wizard = "prompt"
    /\ wizard' = "failed"
    /\ UNCHANGED <<presets, flags_per_row, rows_per_page, num_pages, pages, page, selection>>
    /\ UNCHANGED <<profileVars, stripVars, artVars, utilVars, animVars>>

NextWizard ==
    \/ \E term_w \in TermWidths, term_h \in TermHeights : LayOutPages(term_w, term_h)
    \/ \E line \in InputLines : Select(line)
    \/ ReadFails

SpecWizard == InitWizard /\ [][NextWizard]_vars

----------------------------------------------------------------------------
(* Claims about ColorProfile *)

\* C1: for a non-empty profile and a target length N >= len(P), with_length(N)
\* succeeds and returns exactly N colours.
C1_LengthSpreadTotal ==
    (call.op = "with_length" /\ Len(colors) >= 1 /\ call.length >= Len(colors))
        => (ret.status = "ok" /\ Len(ret.val) = call.length)

C1_Witness ==
    /\ call.op = "with_length"
    /\ Len(colors) = 3
    /\ call.length = 7
    /\ ret.status = "ok"
    /\ Len(ret.val) = 7

\* the repeat count the claim gives for colour i (0-based) of L colours spread to n
C2_Count(L, n, i) ==
    (n \div L)
    + (IF i = L \div 2 /\ (n % L) % 2 = 1 THEN 1 ELSE 0)
    + (IF i < (n % L) \div 2 \/ i >= L - ((n % L) \div 2) THEN 1 ELSE 0)

RECURSIVE C2_Before(_, _, _)
C2_Before(L, n, i) == IF i = 0 THEN 0 ELSE C2_Before(L, n, i - 1) + C2_Count(L, n, i - 1)

\* C2: with_length repeats colour i exactly
\* floor(n/L) + [i = floor(L/2) and n mod L odd] + [i < floor((n mod L)/2) or
\* i >= L - floor((n mod L)/2)] times, in the original order; [A,B,C] spread to 4
\* is [A,B,B,C] and spread to 5 is [A,A,B,C,C].
C2_RepeatCounts ==
    (call.op = "with_length" /\ Len(colors) >= 1) =>
        LET L == Len(colors)
            n == call.length
        IN  /\ ret.status = "ok"
            /\ Len(ret.val) = C2_Before(L, n, L)
            /\ \A i \in 0..(L - 1) :
                    \A k \in (C2_Before(L, n, i) + 1)..C2_Before(L, n, i + 1) :
                        ret.val[k] = colors[i + 1]
            /\ (colors = <<Red, Green, Blue>> /\ n = 4)
                    => ret.val = <<Red, Green, Green, Blue>>
            /\ (colors = <<Red, Green, Blue>> /\ n = 5)
                    => ret.val = <<Red, Red, Green, Blue, Blue>>

C2_Witness ==
    /\ call.op = "with_length"
    /\ colors = <<Red, Green, Blue, Red>>
    /\ call.length = 7
    /\ ret = Ok(<<Red, Red, Green, Blue, Blue, Red, Red>>)

RECURSIVE C3_Prefix(_, _)
C3_Prefix(w, i) == IF i = 0 THEN 0 ELSE C3_Prefix(w, i - 1) + w[i]

C3_Result(cs, w, r) ==
    /\ r.status = "err" <=> Len(w) # Len(cs)
    /\ Len(w) = Len(cs) =>
            /\ r.status = "ok"
            /\ Len(r.val) = SumSeq(w)
            /\ \A i \in 1..Len(cs) :
                    \A k \in (C3_Prefix(w, i - 1) + 1)..C3_Prefix(w, i) : r.val[k] = cs[i]

\* C3: with_weights(weights) returns an error iff weights.len() # colors.len();
\* otherwise the result is colour 0 weights[0] times, then colour 1 weights[1]
\* times, and so on (length = sum of the weights); the receiver is unchanged.
C3_WithWeights ==
    [][call'.op = "with_weights" =>
            (colors' = colors /\ C3_Result(colors, call'.weights, ret'))]_vars

C3_Witness ==
    /\ call.op = "with_weights"
    /\ colors = <<Red, Green, Blue>>
    /\ call.weights = <<2, 0, 1>>
    /\ ret = Ok(<<Red, Red, Blue>>)

C3_WitnessErr ==
    /\ call.op = "with_weights"
    /\ Len(colors) = 3
    /\ Len(call.weights) = 2
    /\ ret.status = "err"

C4_FirstIndex(cs, c) == CHOOSE k \in 1..Len(cs) : cs[k] = c /\ \A j \in 1..(k - 1) : cs[j] # c

\* C4: unique_colors returns the distinct colours of the profile, each exactly
\* once, ordered by first occurrence; applying it twice equals applying it once.
C4_UniqueColors ==
    call.op = "unique_colors" =>
        /\ ret.status = "ok"
        /\ {ret.val[k] : k \in 1..Len(ret.val)} = {colors[k] : k \in 1..Len(colors)}
        /\ \A p, q \in 1..Len(ret.val) : p # q => ret.val[p] # ret.val[q]
        /\ \A p, q \in 1..Len(ret.val) :
                p < q => C4_FirstIndex(colors, ret.val[p]) < C4_FirstIndex(colors, ret.val[q])
        /\ unique_colors(ret.val) = ret.val

C4_Witness ==
    /\ call.op = "unique_colors"
    /\ colors = <<Red, Green, Red, Blue>>
    /\ ret = Ok(<<Red, Green, Blue>>)

----------------------------------------------------------------------------
(* Claims about the placeholder scanner *)

\* a token occupies positions i..i+4 of txt
TokenAt(txt, i) ==
    /\ i >= 1
    /\ i + 4 <= Len(txt)
    /\ \E d \in {"1", "2", "3", "4", "5", "6"} :
            <<txt[i], txt[i + 1], txt[i + 2], txt[i + 3], txt[i + 4]>> = <<"$", "{", "c", d, "}">>

\* some token occurs somewhere in txt
ContainsToken(txt) == \E i \in 1..Len(txt) : TokenAt(txt, i)

\* position k of txt lies inside an occurrence of a token
InsideToken(txt, k) == \E i \in (k - 4)..k : TokenAt(txt, i)

\* txt without the characters of the token occurrences it contains
WithoutTokens(txt) == SelectSeq([k \in 1..Len(txt) |-> <<k, txt[k]>>],
                                LAMBDA e : ~InsideToken(txt, e[1]))

\* the characters of txt outside token occurrences, in order
StripDecl(txt) == LET kept == WithoutTokens(txt) IN [k \in 1..Len(kept) |-> kept[k][2]]

\* C5 as stated: stripping the stripped text again changes nothing, for any text.
C5_IdempotentStrip == strip2.status = "ok" => strip2.val = strip1.val

\* C5 amended: one pass removes exactly the token occurrences of the input; a
\* second pass changes the result exactly when the first result still contains a
\* token (one formed by joining the characters around a removed token).
C5_OnePassStrip ==
    /\ strip1.status = "ok" =>
            strip1.val = StripDecl(text)
    /\ strip2.status = "ok" => (strip2.val = strip1.val <=> ~ContainsToken(strip1.val))

C5_Witness ==
    /\ text = Token("1") \o <<"A">> \o Token("6")
    /\ strip1 = Ok(<<"A">>)
    /\ strip2 = Ok(<<"A">>)

C5_WitnessJoined ==
    /\ text = <<"$", "{", "c">> \o Token("1") \o <<"1", "}">>
    /\ strip1 = Ok(Token("1"))
    /\ strip2 = Ok(<<>>)

----------------------------------------------------------------------------
(* Claims about the normalizer and the aligner *)

\* grapheme clusters of a text: each character that is not a combining mark
\* starts one, and so does the first character
C6_Clusters(txt) == Cardinality({k \in 1..Len(txt) : k = 1 \/ txt[k] # "ACUTE"})

RESET == <<"ESC[39m", "ESC[49m">>

EndsWith(line, suffix) ==
    /\ Len(line) >= Len(suffix)
    /\ SubSeq(line, Len(line) - Len(suffix) + 1, Len(line)) = suffix

Rendered == req.align # "none"

HasForeBack == art.fg # <<>> \/ art.bg # <<>>

\* C7 as stated: every line of a successful render ends with ESC[39m ESC[49m.
C7_ResetTerminated ==
    (Rendered /\ rec.status = "ok") =>
        \A k \in 1..Len(rec.val.lines) : EndsWith(rec.val.lines[k], RESET)

\* position of the last token of a line that has one
C7_LastToken(line) ==
    CHOOSE i \in 1..Len(line) : TokenAt(line, i) /\ \A j \in (i + 1)..Len(line) : ~TokenAt(line, j)

C7_Slot(line, i) == CHOOSE p \in 1..6 : ToString(p) = line[i + 3]

\* C7 amended: Horizontal (with or without fore/back) and Custom lines end with
\* ESC[39m ESC[49m; Vertical lines without fore/back end with ESC[39;49m; a
\* Vertical line with fore/back ends with ESC[39m ESC[49m when its last
\* placeholder has the foreground role, with ESC[39;49m when it has the
\* background role, and with the plain text of its last segment otherwise.
C7_LineEndings ==
    (Rendered /\ rec.status = "ok") =>
        \A k \in 1..Len(rec.val.lines) :
            LET out == rec.val.lines[k]
            IN IF req.align \in {"Horizontal", "Custom"} THEN EndsWith(out, RESET)
               ELSE IF ~HasForeBack THEN EndsWith(out, <<"ESC[39;49m">>)
               ELSE LET line == filled.val.lines[k]
                        i == C7_LastToken(line)
                        slot == C7_Slot(line, i)
                    IN IF slot \in SeqToSet(art.fg) THEN EndsWith(out, RESET)
                       ELSE IF slot \in SeqToSet(art.bg) THEN EndsWith(out, <<"ESC[39;49m">>)
                       ELSE i + 4 < Len(line) =>
                                EndsWith(out, SubSeq(line, i + 5, Len(line)))

C7_Witness ==
    /\ Rendered
    /\ rec.status = "ok"
    /\ req.align = "Vertical"
    /\ art.fg = <<2>>
    /\ art.bg = <<1>>
    /\ art.asc = Token("3") \o <<"A", "A">>
    /\ rec.val.lines = << <<"A", "A">> >>

C9_First(cs, c) == CHOOSE k \in 1..Len(cs) : cs[k] = c /\ \A j \in 1..(k - 1) : cs[j] # c

\* the n-th (from 0) distinct colour of cs in order of first occurrence
C9_Unique(cs, n) ==
    CHOOSE c \in SeqToSet(cs) :
        Cardinality({d \in SeqToSet(cs) : C9_First(cs, d) < C9_First(cs, c)}) = n

\* what stands in the output for position k of a line
C9_Image(line, k, custom, cs, mode) ==
    IF TokenAt(line, k)
    THEN LET slot == C7_Slot(line, k)
         IN IF slot \in DOMAIN custom
            THEN <<to_ansi_string(C9_Unique(cs, custom[slot]), mode, "Foreground")>>
            ELSE <<>>
    ELSE IF InsideToken(line, k) THEN <<>>
    ELSE <<line[k]>>

\* C9: in Custom alignment every token of a mapped slot becomes the foreground
\* escape of the unique-profile colour at the mapped index, every token of an
\* unmapped slot becomes the empty string, no reset occurs inside a line and
\* exactly one reset sequence ends each line.
C9_Custom ==
    (Rendered /\ req.align = "Custom" /\ rec.status = "ok") =>
        /\ Len(rec.val.lines) = Len(filled.val.lines)
        /\ \A k \in 1..Len(rec.val.lines) :
            LET line == filled.val.lines[k]
                out == rec.val.lines[k]
                body == Flatten([j \in 1..Len(line) |->
                                    C9_Image(line, j, req.custom, profile, req.mode)])
            IN  /\ out = body \o RESET
                /\ \A j \in 1..(Len(out) - 2) : out[j] \notin {"ESC[39m", "ESC[49m", "ESC[39;49m"}

C9_Witness ==
    /\ Rendered
    /\ req.align = "Custom"
    /\ req.custom = (1 :> 0) @@ (2 :> 1)
    /\ req.mode = "Rgb"
    /\ profile = <<Red, Red, Blue>>
    /\ art.asc = Token("2") \o <<"A">> \o Token("3")
    /\ rec.status = "ok"
    /\ rec.val.lines = << <<"ESC[38;2;0;0;255m", "A">> \o RESET >>

\* the line begins with a placeholder, after optional leading spaces
C10_Starts(line) ==
    \E i \in 1..Len(line) : TokenAt(line, i) /\ \A j \in 1..(i - 1) : line[j] = " "

\* some line does not begin with a placeholder and no earlier line has one
C10_Malformed(ls) ==
    \E k \in 1..Len(ls) : ~C10_Starts(ls[k]) /\ \A j \in 1..(k - 1) : ~ContainsToken(ls[j])

\* C10: fill_starting fails whenever some line does not begin with a placeholder
\* and no earlier line contains one; Horizontal and Vertical with fore/back and
\* Custom then return that error without output lines; Horizontal and Vertical
\* without fore/back never call it and succeed on art without any placeholder.
C10_FillStartingError ==
    Rendered =>
        IF req.align = "Custom" \/ HasForeBack
        THEN /\ filled.status \in {"ok", "err"}
             /\ C10_Malformed(norm.val.lines) => (filled.status = "err" /\ rec.status = "err")
        ELSE /\ filled.status = "not called"
             /\ rec.status # "err"
             /\ ~ContainsToken(art.asc) => rec.status = "ok"

C10_Witness ==
    /\ Rendered
    /\ req.align = "Vertical"
    /\ HasForeBack
    /\ art.asc = <<"A", "\n">> \o Token("1")
    /\ filled.status = "err"
    /\ rec.status = "err"

----------------------------------------------------------------------------
(* Claims about color_util.rs and utils.rs *)

\* C11: to_ansi_string gives ESC[38;2;R;G;Bm / ESC[48;2;R;G;Bm in truecolor mode
\* and ESC[38;5;idx m / ESC[48;5;idx m in 256-colour mode, 38 for foreground and
\* 48 for background, and does not panic for any colour, role and AnsiMode.
C11_AnsiString ==
    ucall.op = "to_ansi_string" =>
        LET n == IF ucall.foreground_background = "Foreground" THEN "38" ELSE "48"
            c == ucall.c
        IN  /\ uret.status = "ok"
            /\ ucall.mode = "Rgb" =>
                    uret.val = "ESC[" \o n \o ";2;" \o ToString(c[1]) \o ";"
                                \o ToString(c[2]) \o ";" \o ToString(c[3]) \o "m"
            /\ ucall.mode = "Ansi256" =>
                    \E idx \in 0..255 : uret.val = "ESC[" \o n \o ";5;" \o ToString(idx) \o "m"

\* C12: a failure of with_length is a returned error, never a panic: on a
\* profile without colours with_length returns Err.
C12_WithLengthErr ==
    call.op = "with_length" =>
        /\ ret.status \in {"ok", "err"}
        /\ Len(colors) = 0 => ret.status = "err"

\* C13: a Custom render never panics; when the map sends a slot to an index
\* that is not below the number of unique colours of the profile, to_recolored
\* returns an error.
C13_CustomNoPanic ==
    (Rendered /\ req.align = "Custom") =>
        /\ rec.status \in {"ok", "err"}
        /\ (\E slot \in DOMAIN req.custom :
                req.custom[slot] >= Cardinality(SeqToSet(profile))) => rec.status = "err"

C14_InRange(v) == v.kind = "finite" /\ 0 <= v.n /\ v.n <= 100

\* C14: Lightness::new(v) is Ok(v) exactly when 0.0 <= v <= 1.0 and
\* LightnessError::OutOfRange(v) otherwise, without clamping; so every Lightness
\* value that exists lies in [0.0, 1.0].
C14_LightnessRange ==
    /\ ucall.op = "Lightness::new" =>
            IF C14_InRange(ucall.value) THEN uret = Ok(ucall.value)
            ELSE uret = Err([error |-> "OutOfRange", value |-> ucall.value])
    /\ (ucall.op \in {"Lightness::new", "Lightness::deserialize"} /\ uret.status = "ok")
            => C14_InRange(uret.val)

\* the part of C14 about Lightness::new alone
C14_NewChecksRange ==
    ucall.op = "Lightness::new" =>
        IF C14_InRange(ucall.value) THEN uret = Ok(ucall.value)
        ELSE uret = Err([error |-> "OutOfRange", value |-> ucall.value])

\* the innermost layer of an error
C15_Root(r) == r.val[Len(r.val)]

\* C15: process_command_status is Ok exactly on a successful status, an error
\* naming the status code after a non-zero exit and a different error naming
\* the signal after a termination by signal; a missing backend binary gives a
\* third, different error before any process is spawned.
C15_ProcessOutcome ==
    /\ ucall.op = "process_command_status" =>
        LET st == ucall.status
        IN  /\ uret.status = "ok" <=> (st.kind = "exited" /\ st.n = 0)
            /\ (st.kind = "exited" /\ st.n # 0) =>
                    uret = Err(<<Msg("child process exited with status code", st.n)>>)
            /\ st.kind = "signaled" =>
                    uret = Err(<<Msg("child process terminated by signal", st.n)>>)
    /\ ucall.op = "run_neofetch" =>
        LET st == ucall.status
            r == uret.result
        IN  /\ ucall.lookup = "none" =>
                    /\ ~uret.spawned
                    /\ r.status = "err"
                    /\ C15_Root(r) = Msg("neofetch command not found", -1)
            /\ ucall.lookup = "found" =>
                    /\ uret.spawned
                    /\ r.status = "ok" <=> (st.kind = "exited" /\ st.n = 0)
                    /\ (st.kind = "exited" /\ st.n # 0) =>
                            (r.status = "err"
                             /\ C15_Root(r) = Msg("child process exited with status code", st.n))
                    /\ st.kind = "signaled" =>
                            (r.status = "err"
                             /\ C15_Root(r) = Msg("child process terminated by signal", st.n))

C15_Witness ==
    /\ ucall.op = "run_neofetch"
    /\ ucall.lookup = "found"
    /\ ucall.status = Signaled(2)
    /\ uret.spawned
    /\ uret.result = Err(<<Msg("neofetch command exited with error", -1),
                           Msg("child process terminated by signal", 2)>>)

----------------------------------------------------------------------------
(* Claims about fill_starting and the fore/back strategies *)

\* the rightmost token of a line that contains one
C16_LastToken(line) == SubSeq(line, C7_LastToken(line), C7_LastToken(line) + 4)

\* C16: when fill_starting succeeds the output has as many lines as the input; a
\* line that starts with a placeholder (at offset 0 or after spaces only) is
\* unchanged; every other line is the input line prefixed with the rightmost
\* placeholder of the nearest earlier line that contains one; so every output
\* line contains a placeholder preceded by nothing but spaces.
C16_FillStarting ==
    filled.status = "ok" =>
        LET in == norm.val.lines
            out == filled.val.lines
        IN  /\ Len(out) = Len(in)
            /\ \A k \in 1..Len(in) :
                /\ C10_Starts(out[k])
                /\ IF C10_Starts(in[k]) THEN out[k] = in[k]
                   ELSE \E j \in 1..(k - 1) :
                            /\ ContainsToken(in[j])
                            /\ \A m \in (j + 1)..(k - 1) : ~ContainsToken(in[m])
                            /\ out[k] = C16_LastToken(in[j]) \o in[k]

C16_Witness ==
    /\ art.asc = Token("1") \o Token("2") \o <<"\n", "A">>
    /\ filled.status = "ok"
    /\ filled.val.lines = << Token("1") \o Token("2") \o <<" ">>, Token("2") \o <<"A">> >>

VerticalForeBack == Rendered /\ req.align = "Vertical" /\ HasForeBack

\* every grapheme of the art is one byte long
SingleByte == \A k \in 1..Len(art.asc) : art.asc[k] # "ACUTE"

\* the static colour of the foreground role: `&0` or `&f`
ThemeColour(theme) == IF theme = "Light" THEN "ESC[38;5;0m" ELSE "ESC[38;5;15m"

\* the start of the token whose segment holds position k (0: before any token)
SegmentToken(line, k) ==
    IF \E i \in 1..k : TokenAt(line, i)
    THEN CHOOSE i \in 1..k : TokenAt(line, i) /\ \A j \in (i + 1)..k : ~TokenAt(line, j)
    ELSE 0

\* "fg", "bg" or "other": the role of the token that starts at i
Role(line, i) ==
    IF C7_Slot(line, i) \in SeqToSet(art.fg) THEN "fg"
    ELSE IF C7_Slot(line, i) \in SeqToSet(art.bg) THEN "bg"
    ELSE "other"

\* the segment of the token at i has no text
EmptySegment(line, i) == i + 4 = Len(line) \/ TokenAt(line, i + 5)

\* the visual column (from 0) of position k: tokens do not count
Column(line, k) == Cardinality({j \in 1..(k - 1) : ~InsideToken(line, j)})

\* what opens the segment of the token at i, and what closes it; skip tells
\* whether a segment without text is passed over in silence
SegmentOpen(line, i, skip) ==
    IF Role(line, i) = "fg" /\ ~(skip /\ EmptySegment(line, i))
    THEN <<ThemeColour(req.theme)>> ELSE <<>>

SegmentClose(line, i, skip) ==
    IF skip /\ EmptySegment(line, i) THEN <<>>
    ELSE IF Role(line, i) = "fg" THEN RESET
    ELSE IF Role(line, i) = "bg" THEN <<"ESC[39;49m">>
    ELSE <<>>

\* what the walk writes for position k of a filled line
WalkImage(line, k, skip) ==
    IF TokenAt(line, k)
    THEN (IF SegmentToken(line, k - 1) = 0 THEN <<>>
          ELSE SegmentClose(line, SegmentToken(line, k - 1), skip))
         \o SegmentOpen(line, k, skip)
    ELSE IF InsideToken(line, k) \/ SegmentToken(line, k) = 0 THEN <<>>
    ELSE IF Role(line, SegmentToken(line, k)) = "bg"
         THEN <<to_ansi_string(with_length(profile, norm.val.w).val[Column(line, k) + 1],
                               req.mode, "Foreground"),
                line[k]>>
         ELSE <<line[k]>>

WalkLine(line, skip) ==
    Flatten([k \in 1..Len(line) |-> WalkImage(line, k, skip)])
    \o SegmentClose(line, SegmentToken(line, Len(line)), skip)

\* C17: in Vertical alignment with a fore/back pair, a segment without text
\* (two adjacent placeholders, or a placeholder at the end of a line) gets no
\* colour code and no text, and the render succeeds, whatever the role of the
\* segment's slot.
C17_EmptySegments ==
    (VerticalForeBack /\ SingleByte /\ filled.status = "ok"
        /\ \E k \in 1..Len(filled.val.lines) :
            \E i \in 1..Len(filled.val.lines[k]) :
                TokenAt(filled.val.lines[k], i) /\ EmptySegment(filled.val.lines[k], i))
    => /\ rec.status = "ok"
       /\ \A k \in 1..Len(filled.val.lines) :
            rec.val.lines[k] = WalkLine(filled.val.lines[k], TRUE)

\* C18: in Vertical alignment with a fore/back pair on art of single-byte
\* graphemes, a segment has the role of the placeholder before it: a foreground
\* segment is the theme colour, the text and the reset; in a background segment
\* the grapheme at visual column k follows the foreground escape of colour k of
\* with_length(width); a segment of another slot is plain text.
C18_VerticalSegments ==
    (VerticalForeBack /\ SingleByte /\ rec.status = "ok") =>
        /\ Len(rec.val.lines) = Len(filled.val.lines)
        /\ \A k \in 1..Len(filled.val.lines) :
            rec.val.lines[k] = WalkLine(filled.val.lines[k], FALSE)

C18_Witness ==
    /\ VerticalForeBack
    /\ art = [asc |-> <<" ">> \o Token("1") \o <<"A">>, fg |-> <<2>>, bg |-> <<1>>]
    /\ profile = <<Red, Green>>
    /\ req.mode = "Rgb"
    /\ rec.status = "ok"
    /\ rec.val.lines = << <<"ESC[38;2;0;255;0m", "A", "ESC[39;49m">> >>

\* the position after the segment of the token at i: the next token or the end
SegmentEnd(line, i) ==
    IF \E j \in (i + 5)..Len(line) : TokenAt(line, j)
    THEN CHOOSE j \in (i + 5)..Len(line) :
            TokenAt(line, j) /\ \A m \in (i + 5)..(j - 1) : ~TokenAt(line, m)
    ELSE Len(line) + 1

\* bytes of the placeholders up to and including the one at i
TokenBytes(line, i) == 5 * Cardinality({j \in 1..i : TokenAt(line, j)})

\* C19: in Vertical alignment with a fore/back pair, for every normalized art,
\* multi-byte graphemes included, the range a background segment gets by
\* subtracting the accumulated placeholder length from its start and end
\* satisfies 0 <= start <= end <= width and has one colour per grapheme column
\* of the segment, so slicing the spread profile stays in bounds.
C19_SliceInBounds ==
    (VerticalForeBack /\ filled.status = "ok") =>
        /\ rec.status = "panic" => rec.val # "range end index out of range for slice"
        /\ \A k \in 1..Len(filled.val.lines) :
            LET line == filled.val.lines[k]
            IN \A i \in 1..Len(line) :
                (TokenAt(line, i) /\ Role(line, i) = "bg") =>
                    LET start == byte_pos(line, i + 5) - TokenBytes(line, i)
                        end == byte_pos(line, SegmentEnd(line, i)) - TokenBytes(line, i)
                    IN  /\ 0 <= start
                        /\ start <= end
                        /\ end <= norm.val.w
                        /\ end - start =
                            C6_Clusters(SubSeq(line, i + 5, SegmentEnd(line, i) - 1))

HorizontalForeBack == Rendered /\ req.align = "Horizontal" /\ HasForeBack

\* what position k of line number i becomes: a token becomes the colour of its
\* role (other for a slot that is neither foreground nor background)
C20_Image(line, k, i, other) ==
    IF TokenAt(line, k)
    THEN IF Role(line, k) = "fg" THEN <<ThemeColour(req.theme)>>
         ELSE IF Role(line, k) = "bg"
         THEN <<to_ansi_string(with_length(profile, norm.val.h).val[i], req.mode,
                               "Foreground")>>
         ELSE other
    ELSE IF InsideToken(line, k) THEN <<>>
    ELSE <<line[k]>>

C20_Lines(other) ==
    /\ Len(rec.val.lines) = Len(filled.val.lines)
    /\ \A i \in 1..Len(rec.val.lines) :
        LET line == filled.val.lines[i]
        IN rec.val.lines[i] =
            Flatten([k \in 1..Len(line) |-> C20_Image(line, k, i, other)]) \o RESET

----------------------------------------------------------------------------
(* Claims about whitespace, Vertical colouring and the text of a render *)

\* a whitespace character (char::is_whitespace) of the texts considered
C21_IsWhitespace(ch) == ch \in {" ", "\t"}

\* the first placeholder of the line is at offset 0 or has only whitespace
\* before it
C21_Starts(line) ==
    \E i \in 1..Len(line) :
        TokenAt(line, i) /\ \A j \in 1..(i - 1) : C21_IsWhitespace(line[j])

\* C21: fill_starting treats a line as starting with a placeholder exactly when
\* its first placeholder is at offset 0 or everything before it is whitespace
\* (spaces, tabs, any other whitespace); such a line gets no token prepended
\* and cannot cause the missing-placeholder error.
C21_WhitespacePrefix ==
    LET in == norm.val.lines
    IN  /\ filled.status = "ok" =>
            \A k \in 1..Len(in) :
                C21_Starts(in[k]) <=> filled.val.lines[k] = in[k]
        /\ (filled.status = "err" /\ filled.val # "none") =>
            \E k \in 1..Len(in) :
                ~C21_Starts(in[k]) /\ \A j \in 1..(k - 1) : ~ContainsToken(in[j])

VerticalPlain == Rendered /\ req.align = "Vertical" /\ ~HasForeBack

\* the line with the foreground escape of colour Column + 1 of cs before each
\* grapheme cluster, and the reset of color_text after the last one
C22_Coloured(txt, cs, mode) ==
    Flatten([j \in 1..Len(txt) |->
        IF j > 1 /\ txt[j] = "ACUTE" THEN <<txt[j]>>
        ELSE <<to_ansi_string(cs[C6_Clusters(SubSeq(txt, 1, j))], mode, "Foreground"),
               txt[j]>>])
    \o <<COLOR_TEXT_RESET>>

\* C22: in Vertical alignment without a fore/back pair each line is coloured by
\* spreading the profile over the grapheme count of the line without its
\* placeholders; as normalized lines all have the width of the art, the grapheme
\* at column k gets colour k of with_length(width) on every line.
C22_VerticalPlain ==
    VerticalPlain =>
        LET spread == with_length(profile, norm.val.w)
        IN  /\ rec.status = "ok"
            /\ spread.status = "ok"
            /\ Len(spread.val) = norm.val.w
            /\ Len(rec.val.lines) = norm.val.h
            /\ \A i \in 1..norm.val.h :
                LET txt == StripDecl(norm.val.lines[i])
                IN  /\ C6_Clusters(txt) = norm.val.w
                    /\ rec.val.lines[i] = C22_Coloured(txt, spread.val, req.mode)

C22_Witness ==
    /\ VerticalPlain
    /\ art.asc = <<"e", "ACUTE", "\n">> \o Token("1")
    /\ profile = <<Red, Green>>
    /\ req.mode = "Rgb"
    /\ rec.status = "ok"
    /\ rec.val.lines = << <<"ESC[38;2;0;255;0m", "e", "ACUTE", "ESC[39;49m">>,
                          <<"ESC[38;2;0;255;0m", " ", "ESC[39;49m">> >>

----------------------------------------------------------------------------
(* Claims about contrast_grayscale and color *)

\* the first index at which the sequence takes its largest value
C23_FirstMax(diffs) ==
    CHOOSE k \in 1..Len(diffs) :
        /\ \A j \in 1..Len(diffs) : diffs[j] <= diffs[k]
        /\ \A j \in 1..(k - 1) : diffs[j] < diffs[k]

C23_Levels == {rgb_from_ansi256(ANSI256_GRAYSCALE_COLORS[i])[1] :
                    i \in 1..Len(ANSI256_GRAYSCALE_COLORS)}

\* C23: contrast_grayscale scans the ramp in order and returns the first
\* candidate whose difference from the background is the largest of the ramp;
\* for #000000 it is the brightest ramp entry and for #FFFFFF the darkest.
C23_ContrastGrayscale ==
    /\ ucall.op = "best_contrast" => uret = Ok(C23_FirstMax(ucall.diffs))
    /\ ucall.op = "contrast_grayscale" =>
        /\ uret.status = "ok"
        /\ uret.val = rgb_from_ansi256(ANSI256_GRAYSCALE_COLORS[
                            C23_FirstMax(ramp_differences(ucall.background))])[1]
        /\ ucall.background = Black => \A v \in C23_Levels : v <= uret.val
        /\ ucall.background = White => \A v \in C23_Levels : uret.val <= v

\* a tie for the largest difference, won by the earlier candidate
C23_Witness ==
    /\ ucall.op = "best_contrast"
    /\ ucall.diffs[3] = MaxDiff
    /\ ucall.diffs[7] = MaxDiff
    /\ uret = Ok(3)

\* well-formed bodies of an explicit escape and the colours they denote
C24_Bodies ==
    { <<<<"#", "f", "f", "0", "0", "0", "0">>, <<255, 0, 0>>>>,
      <<<<"1", ",", "2", ",", "3">>, <<1, 2, 3>>>> }

\* the body that follows the pattern at i and is closed by ")", if any
C24_BodyAt(msg, i) ==
    {b \in C24_Bodies :
        /\ i + 4 + Len(b[1]) <= Len(msg)
        /\ SubSeq(msg, i + 4, i + 3 + Len(b[1])) = b[1]
        /\ msg[i + 4 + Len(b[1])] = ")"}

\* every explicit escape of the message is well formed
C24_WellFormed(msg) ==
    \A i \in 1..Len(msg) : rgb_pattern_at(msg, i) # 0 => C24_BodyAt(msg, i) # {}

\* the message with every short code and every explicit escape replaced
RECURSIVE C24_Image(_, _, _)
C24_Image(msg, i, mode) ==
    IF i > Len(msg) THEN <<>>
    ELSE IF rgb_pattern_at(msg, i) # 0
    THEN LET b == CHOOSE b \in C24_BodyAt(msg, i) : TRUE
         IN <<to_ansi_string(b[2], mode,
                    IF rgb_pattern_at(msg, i) = 1 THEN "Foreground" ELSE "Background")>>
            \o C24_Image(msg, i + 5 + Len(b[1]), mode)
    ELSE IF minecraft_code_at(msg, i)
    THEN <<(CHOOSE e \in MINECRAFT_COLORS : e[1] = msg[i + 1])[2]>> \o C24_Image(msg, i + 2, mode)
    ELSE <<msg[i]>> \o C24_Image(msg, i + 1, mode)

\* C24: color replaces every short code by its escape sequence and every
\* well-formed explicit escape, wherever it occurs, by the foreground or
\* background sequence of its colour, and returns Ok; a malformed escape gives
\* a returned Err; color never panics.
C24_Color ==
    ucall.op = "color" =>
        /\ uret.status # "panic"
        /\ IF C24_WellFormed(ucall.msg)
           THEN uret = Ok(C24_Image(ucall.msg, 1, ucall.mode))
           ELSE uret.status = "err"

----------------------------------------------------------------------------
(* Claims about the animation and the configuration wizard *)

\* the loop of start_animation has ended: by break, or by returning an error
C25_Ended == animation \in {"exited", "failed"}

\* C25 as stated (the parts about states): the loop never ends while the flag
\* is false, and once the reader has read a line the loop ends after at most
\* the frame in progress and one more.
C25_AsStated ==
    /\ C25_Ended => key_pressed
    /\ frames_since_read <= 1

\* C25 amended: the flag starts false and only the reader's store changes it,
\* from false to true; the loop is left by break only when the flag is true
\* (it also ends, whatever the flag, when clear_screen or draw_frame fails);
\* at most one frame is started after the store; under fair scheduling a line
\* read by the reader leads to the end of the loop.
C25_StopFlag ==
    /\ (reader = "read" => ~key_pressed)
    /\ [][key_pressed' # key_pressed =>
            (~key_pressed /\ key_pressed' /\ reader = "store" /\ reader' = "done")]_vars
    /\ [](animation = "exited" => key_pressed)
    /\ [](frames_since_store <= 1)
    /\ (reader = "store") ~> C25_Ended

\* the loop left by break, after frames started between the read and the store
C25_Witness ==
    /\ animation = "exited"
    /\ key_pressed
    /\ stdin = "line"
    /\ frames_since_read = MaxFrames
    /\ frames_since_store = 1

----------------------------------------------------------------------------
(* Claims about the repeat counts of with_length *)

\* the result of the with_length call is colour i repeated w[i] times, in order
C26_Spread(w) == ret = Ok(extend_weighted(colors, w))

\* C26 as stated: the repeat counts of with_length are symmetric about the
\* centre: colour i and colour L-1-i are repeated the same number of times, for
\* every profile length L, target n and index i.
C26_Symmetric ==
    (call.op = "with_length" /\ Len(colors) >= 1) =>
        LET L == Len(colors)
            w == with_length_weights(L, call.length)
        IN  /\ C26_Spread(w)
            /\ \A i \in 1..L : w[i] = w[L + 1 - i]

\* C26 amended: colour i and colour L-1-i are repeated the same number of
\* times, except when L is even and n mod L is odd: then colour L/2 is repeated
\* once more than colour L/2 - 1, its mirror, and every other pair is equal.
C26_SymmetricButCentre ==
    (call.op = "with_length" /\ Len(colors) >= 1) =>
        LET L == Len(colors)
            w == with_length_weights(L, call.length)
            skew == L % 2 = 0 /\ (call.length % L) % 2 = 1
        IN  /\ C26_Spread(w)
            /\ \A i \in 1..L :
                IF skew /\ i = L \div 2 THEN w[L + 1 - i] = w[i] + 1
                ELSE IF skew /\ i = L \div 2 + 1 THEN w[i] = w[L + 1 - i] + 1
                ELSE w[i] = w[L + 1 - i]

C26_Witness ==
    /\ call.op = "with_length"
    /\ colors = <<Red, Green, Blue, Red>>
    /\ call.length = 7
    /\ ret = Ok(<<Red, Red, Green, Blue, Blue, Red, Red>>)
    /\ with_length_weights(4, 7) = <<2, 1, 2, 2>>

\* C27: for a non-empty profile and a target n in 0..=255 the repeat counts of
\* with_length differ by at most 1 between any two colours and no u8 addition
\* overflows; so for n >= len(P) every colour appears at least once and
\* with_length(len(P)) returns P unchanged.
C27_BalancedCounts ==
    (call.op = "with_length" /\ Len(colors) >= 1) =>
        LET L == Len(colors)
            n == call.length
            w == with_length_weights(L, n)
        IN  /\ ret.status = "ok"
            /\ C26_Spread(w)
            /\ \A i, j \in 1..L : w[i] <= w[j] + 1
            /\ \A i \in 1..L : w[i] <= U8_MAX
            /\ n >= L => \A i \in 1..L : w[i] >= 1
            /\ n = L => ret.val = colors
            /\ n = U8_MAX =>
                \A m \in 0..U8_MAX :
                    LET v == with_length_weights(L, m)
                    IN \A i, j \in 1..L : v[i] <= v[j] + 1 /\ v[i] <= U8_MAX

\* the largest target, with an extra copy on each border and at the centre
C27_Witness ==
    /\ call.op = "with_length"
    /\ colors = <<Red, Green, Blue, Red>>
    /\ call.length = U8_MAX
    /\ ret.status = "ok"
    /\ Len(ret.val) = U8_MAX
    /\ with_length_weights(4, U8_MAX) = <<64, 63, 64, 64>>

\* C28: for a target 0 < n < len(P), with_length returns Ok with exactly n
\* colours, an order-preserving subsequence of P holding each chosen colour
\* once: floor(n/2) colours from each end and, if n is odd, the centre colour.
C28_Compression ==
    (call.op = "with_length" /\ 0 < call.length /\ call.length < Len(colors)) =>
        LET L == Len(colors)
            n == call.length
            half == n \div 2
        IN  /\ ret.status = "ok"
            /\ Len(ret.val) = n
            /\ ret.val = SubSeq(colors, 1, half)
                         \o (IF n % 2 = 1 THEN <<colors[L \div 2 + 1]>> ELSE <<>>)
                         \o SubSeq(colors, L - half + 1, L)

C28_Witness ==
    /\ call.op = "with_length"
    /\ colors = <<Red, Green, Blue, Green>>
    /\ call.length = 3
    /\ ret = Ok(<<Red, Blue, Green>>)

----------------------------------------------------------------------------
(* Claims about the visible text of a render *)

\* the characters an art is made of; every other element of an output line is
\* an ANSI escape sequence
C29_ArtChars == UNION {{piece[k] : k \in 1..Len(piece)} : piece \in ArtPieces}

\* the line with its escape sequences removed
C29_Visible(out) == SelectSeq(out, LAMBDA e : e \in C29_ArtChars)

\* C29: recolouring never changes the visible text: when the render succeeds,
\* each output line without its escape sequences equals the input line without
\* its placeholder tokens (spaces before the first placeholder included), so
\* every output line has the normalized width.
C29_VisibleText ==
    (Rendered /\ rec.status = "ok") =>
        /\ Len(rec.val.lines) = Len(norm.val.lines)
        /\ \A k \in 1..Len(rec.val.lines) :
            LET visible == C29_Visible(rec.val.lines[k])
            IN  /\ visible = StripDecl(norm.val.lines[k])
                /\ C6_Clusters(visible) = norm.val.w

----------------------------------------------------------------------------
(* Claims about the preset selection of the wizard *)

\* C30: in the preset-selection loop, provided at least one flag fits per row,
\* after any sequence of selections 0 <= page < num_pages; next is accepted
\* only when page < num_pages - 1 and prev only when page > 0, as literal_input
\* returns only offered options; so page + 1 and page - 1 never overflow or
\* underflow and pages[page] is in bounds.
C30_PageInBounds ==
    /\ [](wizard \in {"prompt", "selected", "failed"} =>
            /\ flags_per_row >= 1
            /\ num_pages = Len(pages)
            /\ 0 <= page
            /\ page < num_pages)
    /\ [](wizard = "panic" => flags_per_row = 0)
    /\ [][page' = page + 1 =>
            (page < num_pages - 1 /\ selection'.option = OPTION_NEXT)]_vars
    /\ [][page' = page - 1 =>
            (page > 0 /\ selection'.option = OPTION_PREV)]_vars
    /\ [][(wizard = "prompt" /\ wizard' = "selected") =>
            \E k \in 1..presets : selection'.option = PRESET_VARIANTS[k]]_vars

\* the last of several pages, reached with next typed in capitals
C30_Witness ==
    /\ wizard = "prompt"
    /\ num_pages = 3
    /\ page = 2
    /\ selection = [input |-> <<"N", "e", "x", "t">>, option |-> OPTION_NEXT]

====
